---- MODULE Spec2Model ----
(***************************************************************************)
(* Grow controller: the control loop (app.py simulate_profile), the edge   *)
(* alert registry (_edge_alert), the actuator drivers (devices) and the    *)
(* web control routes, and the nutrient dosing service.                    *)
(*                                                                         *)
(* `now` counts the seconds since the process started; time.time() is      *)
(* Wall(now) and _mono() is Mono(now).  Python None is "None" for string   *)
(* fields and NoneT (-1) for numeric fields.                               *)
(***************************************************************************)
EXTENDS Integers, Sequences, FiniteSets, TLC

VARIABLES
    now,              \* the clock (time.time() and _mono())
    running_profile,  \* app.running_profile
    STOP_EVENT,       \* app.STOP_EVENT
    pc,               \* position of the control-loop worker thread
    sd,               \* app.status_data (fields the loop and routes use)
    alert_states,     \* status_data["alert_states"]
    L,                \* locals of simulate_profile
    drv,              \* devices.*_on cached driver flags
    pin,              \* GPIO output levels (TRUE = energised)
    pump_configured,  \* devices.pump_configured
    state_file,       \* state_manager.STATE_FILE content
    profile,          \* the profile JSON on disk
    gs,               \* global settings on disk
    last_temp,        \* app._last_temp
    last_humidity,    \* app._last_humidity
    ev,               \* history: what the last step did (for the properties)
    dose,             \* the dosing subsystem (service.py, routes.py)
    old               \* a worker thread superseded by a later start

vars == <<now, running_profile, STOP_EVENT, pc, sd, alert_states, L, drv, pin,
          pump_configured, state_file, profile, gs, last_temp, last_humidity,
          ev, dose, old>>

loopvars == <<now, running_profile, STOP_EVENT, pc, sd, alert_states, L, drv,
              pin, pump_configured, state_file, profile, gs, last_temp,
              last_humidity, ev, old>>

----------------------------------------------------------------------------
(* Bounds of the model *)
MaxTime == 8         \* the clock stops advancing here
MaxTimeAlert == 3    \* the same, for the runs with changing readings
MaxStep == 2         \* longest time between two loop iterations
HourLen == 2         \* clock units per hour of the day
MaxRoutes == 3       \* web requests and signals per behaviour

(* Values *)
NoneT == -1          \* None in a numeric field
MonoBase == 100      \* _mono() at process start
Epoch == 24 * HourLen * 10   \* time.time() at process start (a midnight)
Mono(t) == t + MonoBase
Wall(t) == t + Epoch
PName == "p.json"    \* the one profile file

Max(a, b) == IF a >= b THEN a ELSE b
Min(a, b) == IF a <= b THEN a ELSE b

Actuators == {"pump", "fan", "heater", "humidifier", "agitator", "air_pump"}

----------------------------------------------------------------------------
(* Small helpers of simulate_profile *)

_safe_seconds(val, fallback) == IF val = NoneT THEN fallback ELSE val

_round_remaining(val) == IF val = NoneT THEN NoneT ELSE IF val <= 0 THEN 0 ELSE val

_rem_from(end_ts, now_mono) ==
    IF end_ts # NoneT /\ end_ts > 0
    THEN (IF end_ts - now_mono > 0 THEN end_ts - now_mono ELSE 0)
    ELSE 0

_rem(v) == IF v # NoneT /\ v > 0 THEN v ELSE 0

\* t is a wall-clock time; the hour of the day it falls in
HourOf(t) == (t \div HourLen) % 24

\* a window test that does not wrap around midnight
_in_hour_window_nowrap(start_h, end_h, t) ==
    start_h <= HourOf(t) /\ HourOf(t) < end_h

_in_hour_window(start_h, end_h, t) ==
    IF start_h = NoneT \/ end_h = NoneT THEN TRUE
    ELSE IF start_h = end_h THEN FALSE
    ELSE IF start_h < end_h THEN start_h <= HourOf(t) /\ HourOf(t) < end_h
    ELSE HourOf(t) >= start_h \/ HourOf(t) < end_h

_next_window_open_ts(start_h, end_h, t) ==
    IF start_h = NoneT \/ end_h = NoneT THEN NoneT
    ELSE IF start_h = end_h THEN NoneT
    ELSE LET today == (t \div (24 * HourLen)) * (24 * HourLen)
             cand  == today + start_h * HourLen
         IN IF cand <= t THEN cand + 24 * HourLen ELSE cand

\* a scheduler that forgets the off-duration
_schedule_next_on_no_off(l, now_wall) == now_wall

_schedule_next_on(l, now_wall) ==
    IF l.pump_off > 0 THEN now_wall + l.pump_off ELSE now_wall

----------------------------------------------------------------------------
(* devices: a setter writes the pin only when the cached flag differs. *)
(* m is the state a handler works on: [sd, L, drv, pin, al, cfg, ret,   *)
(* raised, events, mono]; m.mono is what _mono() returns inside a       *)
(* setter; the UI-only fields *_time_remaining_s and *_time_total_s of  *)
(* status_data are not modelled.                                        *)

_set_main_pump(m, on) ==
    IF ~m.cfg \/ on = m.drv.pump_on THEN m
    ELSE [m EXCEPT !.pin.pump = on, !.drv.pump_on = on]

_set_fan(m, on) ==
    IF on = m.drv.fan_on THEN m
    ELSE [m EXCEPT !.pin.fan = on, !.drv.fan_on = on,
                   !.drv.fan_on_since = IF on THEN m.mono ELSE NoneT]

_set_heater(m, on) ==
    IF on = m.drv.heater_on THEN m
    ELSE [m EXCEPT !.pin.heater = on, !.drv.heater_on = on,
                   !.drv.heater_on_since = IF on THEN m.mono ELSE NoneT]

_set_humidifier(m, on) ==
    IF on = m.drv.humidifier_on THEN m
    ELSE [m EXCEPT !.pin.humidifier = on, !.drv.humidifier_on = on]

_set_agitator(m, on) ==
    IF on = m.drv.agitator_on THEN m
    ELSE [m EXCEPT !.pin.agitator = on, !.drv.agitator_on = on]

\* _set_air_pump also mirrors the state into status_data, but only after a
\* real change of the output (the early return comes first).
_set_air_pump(m, on) ==
    IF on = m.drv.air_pump_on THEN m
    ELSE [m EXCEPT !.pin.air_pump = on, !.drv.air_pump_on = on,
                   !.sd.air_pump_state = IF on THEN "ON" ELSE "OFF",
                   !.sd.air_pump_phase_end_ts =
                        IF on THEN m.sd.air_pump_phase_end_ts ELSE NoneT]

\* apply_outputs_from_status writes every pin from status_data and leaves
\* the cached driver flags alone.
apply_outputs_from_status(s, p, cfg) ==
    [pump       |-> IF cfg THEN s.pump_state = "ON" ELSE p.pump,
     fan        |-> s.fan_state = "ON",
     heater     |-> s.heater_state = "ON",
     humidifier |-> s.humidifier_state = "ON",
     agitator   |-> s.agitator_state = "ON",
     air_pump   |-> s.air_pump_state = "ON"]

----------------------------------------------------------------------------
(* The edge alert registry: status_data["alert_states"] and _edge_alert.   *)
(* keys records which keys the per-alert dict holds: "absent" (no entry),  *)
(* "empty" ({}), "am" (active and message only) or "full".                 *)

AlertKinds == {"reservoir_cutoff", "temp_hard_low"}

\* first_triggered is written once per breach and never read by the code:
\* the model records that a time was stored ("set"), not which one
NoAlert == [keys |-> "absent", active |-> FALSE, first_triggered |-> "None",
            last_notified |-> 0, message |-> "None"]

\* _alert_state: setdefault of the full record; an existing dict is kept.
_alert_state(al, name) ==
    IF al[name].keys = "absent"
    THEN [al EXCEPT ![name] = [NoAlert EXCEPT !.keys = "full"]]
    ELSE al

\* a registry that never sees another active alert
AnyActive_blind(al) == FALSE

AnyActive(al) == \E k \in AlertKinds : al[k].keys \in {"am", "full"} /\ al[k].active

\* a registry that reminds on every call during a breach
ReminderDue_always(now_ts, last_notified, cooldown_s) == TRUE

\* (now_ts - (st["last_notified"] or 0)) >= float(cooldown_s or 0)
ReminderDue(now_ts, last_notified, cooldown_s) == now_ts - last_notified >= cooldown_s

\* a level-triggered registry: active follows breach_now, without hysteresis
_edge_alert_level(m0, name, breach_now, recovered_now, cooldown_s, now_ts) ==
    LET m == [m0 EXCEPT !.al = _alert_state(m0.al, name)]
    IN [m EXCEPT !.al[name].keys = "full", !.al[name].active = breach_now,
                 !.ret = breach_now]

\* _edge_alert.  m.ret is the returned hard-stop flag, m.raised is set when
\* st["active"] is read from a dict that has no such key (KeyError), and
\* m.events collects the audit rows and notifications of this tick.
_edge_alert(m0, name, breach_now, recovered_now, cooldown_s, now_ts) ==
    LET m  == [m0 EXCEPT !.al = _alert_state(m0.al, name)]
        st == m.al[name]
    IN  IF st.keys = "empty" /\ (breach_now \/ recovered_now)
        THEN [m EXCEPT !.raised = TRUE]
        ELSE IF breach_now /\ ~st.active
        THEN [m EXCEPT !.al[name] = [keys |-> "full", active |-> TRUE,
                                     first_triggered |-> "set",
                                     last_notified |-> 0, message |-> "msg"],
                       !.sd.last_error = "msg",
                       !.events = @ \cup {<<name, "log_breach">>, <<name, "notify_breach">>},
                       !.ret = TRUE]
        ELSE IF breach_now /\ st.active
        THEN IF ReminderDue(now_ts, st.last_notified, cooldown_s)
             THEN [m EXCEPT !.al[name].last_notified = now_ts,
                            !.events = @ \cup {<<name, "notify_reminder">>},
                            !.ret = TRUE]
             ELSE [m EXCEPT !.ret = TRUE]
        ELSE IF recovered_now /\ st.active
        THEN LET al2 == [m.al EXCEPT ![name].active = FALSE, ![name].message = "None"]
             IN [m EXCEPT !.al = al2,
                          !.sd.last_error = IF AnyActive(al2) THEN @ ELSE "None",
                          !.events = @ \cup {<<name, "log_recover">>, <<name, "notify_recover">>},
                          !.ret = FALSE]
        ELSE [m EXCEPT !.ret = FALSE]

----------------------------------------------------------------------------
(* simulate_profile, before the loop *)

Pack == [sd |-> sd, L |-> L, drv |-> drv, pin |-> pin, al |-> alert_states,
         cfg |-> pump_configured, ret |-> FALSE, raised |-> FALSE, events |-> {},
         mono |-> Mono(now)]

\* the premix actuator part of _trigger_startup_premix, for one of
\* "air_pump" / "agitator"
PremixAir(m, now_mono, clamp) ==
    IF m.L.air_enabled /\ m.L.air_run > 0
    THEN LET a == _set_air_pump(m, TRUE)
         IN [a EXCEPT !.sd.air_pump_state = "ON",
                      !.L.air_timer = now_mono,
                      !.L.air_started_this_cycle = TRUE,
                      !.sd.air_pump_phase_end_ts =
                          Min(now_mono + m.L.air_run, now_mono + clamp)]
    ELSE [m EXCEPT !.sd.air_pump_state = "OFF",
                   !.sd.air_pump_phase_end_ts = NoneT]

PremixAgitator(m, now_mono, clamp) ==
    IF m.L.ag_enabled /\ m.L.ag_run > 0
    THEN LET a == _set_agitator(m, TRUE)
         IN [a EXCEPT !.sd.agitator_state = "ON",
                      !.L.agitator_timer = now_mono,
                      !.L.agitator_started_this_cycle = TRUE,
                      !.sd.agitator_phase_end_ts =
                          Min(now_mono + m.L.ag_run, now_mono + clamp)]
    ELSE [m EXCEPT !.sd.agitator_state = "OFF",
                   !.sd.agitator_phase_end_ts = NoneT]

_trigger_startup_premix(m0, now_wall, now_mono, force) ==
    LET start_premix(m2) ==
            LET longest == Max(IF m2.L.ag_enabled THEN m2.L.ag_run ELSE 0,
                               IF m2.L.air_enabled THEN m2.L.air_run ELSE 0)
                existing_delay == IF m2.L.next_on_due_at # NoneT
                                  THEN Max(0, m2.L.next_on_due_at - now_wall) ELSE 0
                target_delay == IF longest > 0 THEN longest ELSE 0
                pump_delay == Max(existing_delay, target_delay)
            IN PremixAgitator(
                   PremixAir([m2 EXCEPT !.L.next_on_due_at = now_wall + pump_delay],
                             now_mono, pump_delay),
                   now_mono, pump_delay)
    IN start_premix(
           [(IF force \/ m0.sd.pump_state = "ON"
             THEN [_set_main_pump(m0, FALSE) EXCEPT
                       !.sd.pump_state = "OFF",
                       !.sd.pump_phase_end_ts = NoneT,
                       !.L.pump_timer = now_mono]
             ELSE m0)
            EXCEPT !.L.agitator_started_this_cycle = FALSE,
                   !.L.air_started_this_cycle = FALSE])

\* _apply_profile_cfg and the merge of the global premix settings
ApplyConfig(m, prof, g) ==
    [m EXCEPT !.sd.temperature_min = prof.temperature_min,
              !.sd.temperature_max = prof.temperature_max,
              !.sd.humidity_min = prof.humidity_min,
              !.sd.humidity_max = prof.humidity_max,
              !.L.pump_on = _safe_seconds(prof.on_duration_sec, 0),
              !.L.pump_off = _safe_seconds(prof.off_duration_sec, 0),
              !.L.win_on = prof.on_time,
              !.L.win_off = prof.off_time,
              !.L.ag_enabled = g.agitator_enabled,
              !.L.ag_run = _safe_seconds(g.agitator_run_sec, 0),
              !.L.air_enabled = g.air_pump_enabled,
              !.L.air_run = _safe_seconds(g.air_pump_run_sec, 0),
              !.L.gs = g]

\* the fail-safe before the loop: climate outputs and premix off
StartupFailSafe(m) ==
    LET a == _set_fan(m, FALSE)
        b == _set_heater([a EXCEPT !.sd.fan_state = "OFF"], FALSE)
        c == _set_humidifier([b EXCEPT !.sd.heater_state = "OFF"], FALSE)
        d == _set_agitator([c EXCEPT !.sd.humidifier_state = "OFF"], FALSE)
        e == _set_air_pump([d EXCEPT !.sd.agitator_state = "OFF"], FALSE)
    IN [e EXCEPT !.sd.air_pump_state = "OFF"]

\* ReservoirTracker(..., hyst_kg=0.5): weights are counted in units of
\* half a kilogram
HystKg == 1

\* a classification that leaves a level one step at a time
_classify_one_step(usable, fm, half, low, crit, hyst_kg, w, prev) ==
    LET target == IF w <= crit THEN "critical"
                  ELSE IF w <= low THEN "low"
                  ELSE IF w <= half THEN "half"
                  ELSE "ok"
        sev(l) == IF l = "half" THEN 1 ELSE IF l = "low" THEN 2
                  ELSE IF l = "critical" THEN 3 ELSE 0
    IN  IF w = NoneT THEN (IF prev = "None" THEN "ok" ELSE prev)
        ELSE IF usable # 0 /\ w >= usable - fm THEN "full"
        ELSE IF prev \in {"None", "ok", "full"} THEN target
        ELSE IF sev(target) > sev(prev) THEN target
        ELSE IF sev(target) = sev(prev) THEN prev
        ELSE IF prev = "critical" THEN (IF w > crit + hyst_kg THEN "low" ELSE prev)
        ELSE IF prev = "low" THEN (IF w > low + hyst_kg THEN "half" ELSE prev)
        ELSE (IF w > half + hyst_kg THEN "ok" ELSE prev)

\* ReservoirTracker._classify; hyst_kg is self.hyst_kg
_classify(usable, fm, half, low, crit, hyst_kg, w, prev) ==
    LET target == IF w <= crit THEN "critical"
                  ELSE IF w <= low THEN "low"
                  ELSE IF w <= half THEN "half"
                  ELSE "ok"
        sev(l) == IF l = "half" THEN 1 ELSE IF l = "low" THEN 2
                  ELSE IF l = "critical" THEN 3 ELSE 0
    IN  IF w = NoneT THEN (IF prev = "None" THEN "ok" ELSE prev)
        ELSE IF usable # 0 /\ w >= usable - fm THEN "full"
        ELSE IF prev \in {"None", "ok", "full"} THEN target
        ELSE IF sev(target) > sev(prev) THEN target
        ELSE IF sev(target) = sev(prev) THEN prev
        ELSE IF prev = "critical" THEN (IF w > crit + hyst_kg THEN target ELSE prev)
        ELSE IF prev = "low" THEN (IF w > low + hyst_kg THEN target ELSE prev)
        ELSE IF prev = "half" THEN (IF w > half + hyst_kg THEN target ELSE prev)
        ELSE target

\* global settings on disk
BaseSettings == [agitator_enabled |-> FALSE, agitator_run_sec |-> 0,
                 air_pump_enabled |-> FALSE, air_pump_run_sec |-> 0,
                 absolute_temp_min_c |-> 1, absolute_temp_hyst_c |-> 1,
                 hysteresis_temp_c |-> 1, hysteresis_humidity_pct |-> 1,
                 fan_min_on_s |-> 0, heater_min_on_s |-> 0,
                 reservoir_full_capacity_kg |-> 0, reservoir_full_margin_kg |-> 0,
                 reservoir_half_water_kg |-> 0, reservoir_low_water_kg |-> 0,
                 reservoir_critical_water_kg |-> 0,
                 hard_alert_cooldown_s |-> 3]

LocalsInit == [pump_on |-> 0, pump_off |-> 0, win_on |-> NoneT, win_off |-> NoneT,
               ag_enabled |-> FALSE, ag_run |-> 0,
               air_enabled |-> FALSE, air_run |-> 0,
               pump_timer |-> 0, next_on_due_at |-> NoneT,
               agitator_started_this_cycle |-> FALSE, agitator_timer |-> 0,
               air_started_this_cycle |-> FALSE, air_timer |-> 0,
               last_paused |-> FALSE, pump_resume_phase |-> "None",
               below_cutoff_now |-> FALSE, last_state_save |-> 0,
               gs |-> BaseSettings, next_gs_reload |-> 0,
               _last_profile_mtime |-> 0, _next_reload_check |-> 0,
               profile_data_readable |-> TRUE,
               profile_name |-> PName,
               tracker |-> [_last_label |-> "None", hyst_kg |-> HystKg]]

\* simulate_profile from its first line to the head of the main loop
StartupBody(m0, prof, g, t) ==
    LET now_wall == Wall(t)
        now_m    == Mono(t)
        \* the locals the loop starts with
        loop_locals(m5) ==
            [m5 EXCEPT !.L.last_paused = m5.sd.paused,
                       !.L.pump_resume_phase = "None",
                       !.L._last_profile_mtime = prof.mtime,
                       !.L.last_state_save = now_wall]
        \* the pump start at t = 0 when nothing has to run before it
        first_start(m4, allowed_now) ==
            loop_locals(
              IF /\ allowed_now
                 /\ m4.L.next_on_due_at # NoneT
                 /\ m4.L.next_on_due_at <= now_wall
                 /\ ~(m4.L.agitator_started_this_cycle \/ m4.L.air_started_this_cycle)
              THEN IF m4.L.pump_on > 0
                   THEN [_set_main_pump([m4 EXCEPT !.sd.pump_state = "ON",
                                                   !.L.pump_timer = now_m,
                                                   !.sd.cycle_count = @ + 1], TRUE)
                            EXCEPT !.sd.pump_phase_end_ts = now_m + m4.L.pump_on]
                   ELSE [m4 EXCEPT !.sd.pump_state = "OFF",
                                   !.L.pump_timer = now_m,
                                   !.sd.pump_phase_end_ts = NoneT]
              ELSE [m4 EXCEPT !.sd.pump_state = "OFF",
                              !.sd.pump_phase_end_ts = NoneT])
        \* the first due time: window gate, premix kick or immediate start
        first_due(m3, allowed_now, do_crash_premix) ==
            first_start(
              IF ~allowed_now
              THEN [m3 EXCEPT !.L.next_on_due_at =
                        _next_window_open_ts(m3.L.win_on, m3.L.win_off, now_wall)]
              ELSE IF m3.sd.startup_kick \/ do_crash_premix
              THEN _trigger_startup_premix([m3 EXCEPT !.sd.startup_kick = FALSE],
                                           now_wall, now_m, do_crash_premix)
              ELSE [m3 EXCEPT !.L.next_on_due_at = now_wall],
              allowed_now)
        configured(m2) ==
            first_due([m2 EXCEPT !.L.pump_timer = now_m],
                      _in_hour_window(m2.L.win_on, m2.L.win_off, now_wall),
                      /\ m2.sd.profile = m2.L.profile_name
                      /\ m2.sd.pump_state = "ON"
                      /\ ~m2.sd.paused)
    IN configured(StartupFailSafe(ApplyConfig(
           [m0 EXCEPT !.L = [LocalsInit EXCEPT !.profile_name = m0.L.profile_name],
                      !.sd.profile = m0.L.profile_name,
                      !.sd.cycle_count = 0], prof, g)))

----------------------------------------------------------------------------
(* simulate_profile, one iteration of the main loop *)

OnOff(b) == IF b THEN "ON" ELSE "OFF"

\* the capture of the remaining times, done on every iteration
CaptureRemaining(m, now_m) ==
    [m EXCEPT
        !.sd.agitator_resume_phase = OnOff(m.sd.agitator_state = "ON"),
        !.sd.agitator_resume_remaining_s =
            _round_remaining(_rem_from(m.sd.agitator_phase_end_ts, now_m)),
        !.sd.air_pump_resume_phase = OnOff(m.sd.air_pump_state = "ON"),
        !.sd.air_pump_resume_remaining_s =
            _round_remaining(_rem_from(m.sd.air_pump_phase_end_ts, now_m)),
        !.sd.pump_resume_remaining_s =
            IF m.sd.pump_state = "ON"
            THEN _round_remaining(_rem_from(m.sd.pump_phase_end_ts, now_m))
            ELSE NoneT]

\* resume path, pump_resume_phase = "ON"
ResumePumpOn(m, now_m) ==
    LET rem_raw == _safe_seconds(m.sd.pump_resume_remaining_s, 0)
        a == [m EXCEPT !.sd.pump_phase_end_ts =
                  IF rem_raw > 0
                  THEN (now_m - Max(0, m.L.pump_on - rem_raw)) + m.L.pump_on
                  ELSE now_m + m.L.pump_on]
    IN [_set_main_pump(a, TRUE) EXCEPT !.sd.pump_state = "ON",
                                      !.L.next_on_due_at = NoneT]

\* resume path, pump_resume_phase # "ON": restart the premix that was cut
ResumePremix(m, now_wall, now_m) ==
    LET remain_air == _rem(m.sd.air_pump_resume_remaining_s)
        remain_ag  == _rem(m.sd.agitator_resume_remaining_s)
        run_air == IF remain_air > 0 THEN remain_air ELSE m.L.air_run
        run_ag  == IF remain_ag > 0 THEN remain_ag ELSE m.L.ag_run
        air_go == m.L.air_enabled /\ (m.sd.air_pump_resume_phase = "ON" \/ remain_air > 0)
        ag_go  == m.L.ag_enabled /\ (m.sd.agitator_resume_phase = "ON" \/ remain_ag > 0)
        longest == Max(IF air_go /\ run_air > 0 THEN run_air ELSE 0,
                       IF ag_go /\ run_ag > 0 THEN run_ag ELSE 0)
        next_due(b) ==
            [b EXCEPT !.L.next_on_due_at =
                IF longest > 0 THEN now_wall + longest
                ELSE IF b.L.pump_off <= 0 THEN now_wall
                ELSE _schedule_next_on(b.L, now_wall)]
        resume_agitator(a) ==
            next_due(
              IF ag_go
              THEN IF run_ag > 0
                   THEN [_set_agitator(a, TRUE) EXCEPT
                             !.sd.agitator_state = "ON",
                             !.L.agitator_timer = now_m,
                             !.L.agitator_started_this_cycle = TRUE,
                             !.sd.agitator_phase_end_ts = now_m + run_ag]
                   ELSE a
              ELSE [a EXCEPT !.sd.agitator_state = "OFF",
                             !.sd.agitator_phase_end_ts = NoneT])
    IN resume_agitator(
         IF air_go
         THEN IF run_air > 0
              THEN [_set_air_pump(m, TRUE) EXCEPT
                        !.sd.air_pump_state = "ON",
                        !.L.air_timer = now_m,
                        !.L.air_started_this_cycle = TRUE,
                        !.sd.air_pump_phase_end_ts = now_m + run_air]
              ELSE m
         ELSE [m EXCEPT !.sd.air_pump_state = "OFF",
                        !.sd.air_pump_phase_end_ts = NoneT])

\* the pause and resume edges, up to `last_paused = paused_now`
PauseResumeEdges(m0, now_wall, now_m) ==
    LET paused_now == m0.sd.paused
        resume_edge(m2) ==
            LET phase == IF m2.L.pump_resume_phase \notin {"ON", "OFF"}
                         THEN m2.sd.pump_resume_phase ELSE m2.L.pump_resume_phase
            IN [(IF ~paused_now /\ m2.L.last_paused
                 THEN [(IF phase = "ON" THEN ResumePumpOn(m2, now_m)
                                        ELSE ResumePremix(m2, now_wall, now_m))
                       EXCEPT !.L.pump_resume_phase = "None",
                              !.sd.pump_resume_remaining_s = NoneT,
                              !.sd.pump_resume_phase = "None",
                              !.sd.agitator_resume_remaining_s = NoneT,
                              !.sd.agitator_resume_phase = "None",
                              !.sd.air_pump_resume_remaining_s = NoneT,
                              !.sd.air_pump_resume_phase = "None"]
                 ELSE m2)
                EXCEPT !.L.last_paused = paused_now]
    IN resume_edge(CaptureRemaining(
           IF paused_now /\ ~m0.L.last_paused
           THEN [m0 EXCEPT !.L.pump_resume_phase =
                     IF m0.sd.pump_resume_phase \in {"ON", "OFF"}
                     THEN m0.sd.pump_resume_phase
                     ELSE OnOff(m0.sd.pump_state = "ON")]
           ELSE m0, now_m))

\* the paused branch: every output off, status stays paused
PausedBranch(m) ==
    LET a == _set_main_pump(m, FALSE)
        b == _set_agitator(a, FALSE)
        c == _set_air_pump(b, FALSE)
        d == _set_fan(c, FALSE)
        e == _set_heater(d, FALSE)
        f == _set_humidifier(e, FALSE)
    IN [f EXCEPT !.sd.paused = TRUE]

\* import-time copies app.py holds of devices.fan_on / heater_on /
\* fan_on_since / heater_on_since (`from devices import ...`): the names are
\* bound once, to the values the driver module had when app.py was loaded.
AppFanOn == FALSE
AppHeaterOn == FALSE
AppFanOnSince == NoneT
AppHeaterOnSince == NoneT

\* `fan_on and fan_on_since is not None and (_mono() - fan_on_since) <
\* fan_min_on`, on the names app.py holds
FanMinOnHold(m, g) ==
    AppFanOn /\ AppFanOnSince # NoneT /\ m.mono - AppFanOnSince < g.fan_min_on_s

HeaterMinOnHold(m, g) ==
    AppHeaterOn /\ AppHeaterOnSince # NoneT
        /\ m.mono - AppHeaterOnSince < g.heater_min_on_s

\* sensors: the last-good caches and the reservoir reading with the
\* de-staling of the reservoir_cutoff entry.  inp.res is "none" (no scale
\* reading), "ok" or "below" (smoothed water at or below the cut-off).
ReadReservoir(m, inp) ==
    IF inp.res = "none"
    THEN [m EXCEPT !.L.below_cutoff_now = FALSE]
    ELSE LET rc == m.al["reservoir_cutoff"]
             rc1 == IF rc.keys = "absent" THEN [rc EXCEPT !.keys = "empty"] ELSE rc
             rc2 == IF inp.res # "below"
                    THEN [rc1 EXCEPT !.active = FALSE, !.message = "None",
                                     !.keys = IF rc1.keys = "empty" THEN "am" ELSE @]
                    ELSE rc1
         IN [m EXCEPT !.L.below_cutoff_now = (inp.res = "below"),
                      !.al["reservoir_cutoff"] = rc2]

\* the hard-limit evaluation: reservoir_cutoff always, temp_hard_low when
\* the absolute minimum is configured.  Formatting the message with a
\* reading of None raises before _edge_alert is entered.
EvaluateAlerts(m0, g, air_t, now_wall) ==
    LET below == m0.L.below_cutoff_now
        t_low_breach  == air_t # NoneT /\ g.absolute_temp_min_c # NoneT
                         /\ air_t < g.absolute_temp_min_c
        t_low_recover == air_t # NoneT /\ g.absolute_temp_min_c # NoneT
                         /\ air_t >= g.absolute_temp_min_c + g.absolute_temp_hyst_c
        \* hard_stop = hard_stop or _edge_alert("temp_hard_low", ...)
        or_hard_stop(a, r) == [r EXCEPT !.ret = a.ret \/ r.ret]
        temp_hard_low(a) ==
            IF a.raised \/ g.absolute_temp_min_c = NoneT THEN a
            ELSE IF air_t = NoneT THEN [a EXCEPT !.raised = TRUE]
            ELSE or_hard_stop(a, _edge_alert(a, "temp_hard_low", t_low_breach,
                                             t_low_recover,
                                             g.hard_alert_cooldown_s, now_wall))
    IN temp_hard_low(_edge_alert(m0, "reservoir_cutoff", below, ~below,
                                 g.hard_alert_cooldown_s, now_wall))

\* the hard-stop branch
HardStopBranch(m) ==
    LET a == _set_fan(m, FALSE)
        b == _set_heater([a EXCEPT !.sd.fan_state = "OFF"], FALSE)
        c == _set_humidifier([b EXCEPT !.sd.heater_state = "OFF"], FALSE)
        pump_off(h) ==
            IF h.cfg
            THEN [_set_main_pump(h, FALSE) EXCEPT !.sd.pump_state = "OFF"]
            ELSE h
        air_pump_off(e) ==
            pump_off([(IF e.sd.air_pump_state = "ON"
                       THEN [_set_air_pump(e, FALSE) EXCEPT !.sd.air_pump_state = "OFF"]
                       ELSE e)
                      EXCEPT !.sd.agitator_phase_end_ts = NoneT,
                             !.sd.air_pump_phase_end_ts = NoneT])
        agitator_off(d) ==
            air_pump_off(IF d.sd.agitator_state = "ON"
                         THEN [_set_agitator(d, FALSE) EXCEPT !.sd.agitator_state = "OFF"]
                         ELSE d)
    IN agitator_off([c EXCEPT !.sd.humidifier_state = "OFF"])

\* force-clear of last_error when no alert is active
ClearPhantomError(m) ==
    IF ~AnyActive(m.al) /\ m.sd.last_error # "None"
    THEN [m EXCEPT !.sd.last_error = "None"] ELSE m

\* climate control (fan, heater, humidifier)
Climate(m, g, lt, lh) ==
    IF lt = NoneT \/ lh = NoneT
    THEN LET a == _set_fan(m, FALSE)
             b == _set_heater([a EXCEPT !.sd.fan_state = "OFF"], FALSE)
             c == _set_humidifier([b EXCEPT !.sd.heater_state = "OFF"], FALSE)
         IN [c EXCEPT !.sd.humidifier_state = "OFF"]
    ELSE
    LET t_max == m.sd.temperature_max
        h_max == m.sd.humidity_max
        hot == t_max # NoneT /\ lt > t_max
        fan1 == IF m.sd.paused \/ t_max = NoneT THEN AppFanOn
                ELSE IF lt > t_max THEN TRUE
                ELSE IF lt < t_max - g.hysteresis_temp_c THEN FALSE
                ELSE AppFanOn
        fan2 == IF m.sd.paused \/ h_max = NoneT THEN fan1
                ELSE IF lh > h_max THEN TRUE
                ELSE IF lh < h_max - g.hysteresis_humidity_pct /\ ~hot THEN FALSE
                ELSE fan1
        fan_should_on == IF ~fan2 /\ FanMinOnHold(m, g) THEN TRUE ELSE fan2
        humidifier(b) ==
            LET h_min == b.sd.humidity_min
                humid_should_on ==
                    IF lh < h_min THEN TRUE
                    ELSE IF lh >= h_min + g.hysteresis_humidity_pct THEN FALSE
                    ELSE b.sd.humidifier_state = "ON"
            IN IF h_min # NoneT
               THEN [_set_humidifier(b, humid_should_on)
                         EXCEPT !.sd.humidifier_state = OnOff(humid_should_on)]
               ELSE b
        heater(a) ==
            LET t_min == a.sd.temperature_min
                heater_regulated ==
                    IF lt < t_min THEN TRUE
                    ELSE IF lt >= t_min + g.hysteresis_temp_c THEN FALSE
                    ELSE AppHeaterOn
                heater_should_on ==
                    IF ~heater_regulated /\ HeaterMinOnHold(a, g) THEN TRUE
                    ELSE heater_regulated
            IN humidifier(IF t_min # NoneT
                          THEN [_set_heater(a, heater_should_on)
                                    EXCEPT !.sd.heater_state = OnOff(heater_should_on)]
                          ELSE a)
    IN heater(_set_fan([m EXCEPT !.sd.fan_state = OnOff(fan_should_on)],
                       fan_should_on))

\* switch the premix actuators off where status_data shows them on
AgitatorOffIfOn(m) ==
    IF m.sd.agitator_state = "ON"
    THEN [_set_agitator(m, FALSE) EXCEPT !.sd.agitator_state = "OFF",
                                         !.sd.agitator_phase_end_ts = NoneT]
    ELSE m

AirPumpOffIfOn(m) ==
    IF m.sd.air_pump_state = "ON"
    THEN [_set_air_pump(m, FALSE) EXCEPT !.sd.air_pump_state = "OFF",
                                         !.sd.air_pump_phase_end_ts = NoneT]
    ELSE m

\* the pump window hard gate, taken when the hour is outside the window
WindowClosedBranch(m, now_wall) ==
    LET next_open(b) ==
            [b EXCEPT !.L.next_on_due_at =
                _next_window_open_ts(b.L.win_on, b.L.win_off, now_wall)]
    IN next_open(AirPumpOffIfOn(AgitatorOffIfOn(
           IF m.sd.pump_state = "ON"
           THEN [_set_main_pump([m EXCEPT !.sd.pump_state = "OFF"], FALSE)
                     EXCEPT !.sd.pump_phase_end_ts = NoneT]
           ELSE m)))

\* scheduler, disabled schedule (both durations <= 0)
SchedulerDisabled(m) ==
    LET a == IF m.sd.pump_state = "ON"
             THEN _set_main_pump([m EXCEPT !.sd.pump_state = "OFF"], FALSE)
             ELSE m
    IN AirPumpOffIfOn(AgitatorOffIfOn(a))

\* air premix before the pump start (pump not ON)
SchedAir(m, now_wall, now_m) ==
    IF m.L.air_enabled /\ m.L.air_run > 0 /\ m.L.next_on_due_at # NoneT
    THEN LET stop_when_done(a) ==
                 LET ap_end == a.sd.air_pump_phase_end_ts
                 IN IF a.sd.air_pump_state = "ON" /\ ap_end # NoneT /\ ap_end # 0
                       /\ now_m >= ap_end
                    THEN [_set_air_pump(a, FALSE) EXCEPT
                              !.sd.air_pump_state = "OFF",
                              !.sd.air_pump_phase_end_ts = NoneT]
                    ELSE a
         IN stop_when_done(
              IF ~m.L.air_started_this_cycle
                 /\ now_wall >= m.L.next_on_due_at - m.L.air_run
              THEN [_set_air_pump(m, TRUE) EXCEPT
                        !.sd.air_pump_state = "ON",
                        !.L.air_timer = now_m,
                        !.L.air_started_this_cycle = TRUE,
                        !.sd.air_pump_phase_end_ts =
                            Min(now_m + m.L.air_run,
                                now_m + Max(0, m.L.next_on_due_at - now_wall))]
              ELSE m)
    ELSE m

\* agitator premix before the pump start (pump not ON)
SchedAgitator(m, now_wall, now_m) ==
    IF m.L.ag_enabled /\ m.L.ag_run > 0 /\ m.L.next_on_due_at # NoneT
    THEN LET stop_when_done(a) ==
                 LET a_end == a.sd.agitator_phase_end_ts
                 IN IF a.sd.agitator_state = "ON" /\ a_end # NoneT /\ a_end # 0
                       /\ now_m >= a_end
                    THEN [_set_agitator(a, FALSE) EXCEPT
                              !.sd.agitator_state = "OFF",
                              !.sd.agitator_phase_end_ts = NoneT]
                    ELSE a
         IN stop_when_done(
              IF ~m.L.agitator_started_this_cycle
                 /\ now_wall >= m.L.next_on_due_at - m.L.ag_run
              THEN [_set_agitator(m, TRUE) EXCEPT
                        !.sd.agitator_state = "ON",
                        !.L.agitator_timer = now_m,
                        !.L.agitator_started_this_cycle = TRUE,
                        !.sd.agitator_phase_end_ts =
                            Min(now_m + m.L.ag_run,
                                now_m + Max(0, m.L.next_on_due_at - now_wall))]
              ELSE m)
    ELSE m

\* a scheduler that lets the agitator run its full time before the pump
SchedPumpStart_after_premix(m, now_wall, now_m) ==
    IF m.L.next_on_due_at # NoneT /\ now_wall >= m.L.next_on_due_at + m.L.ag_run
    THEN [_set_main_pump([m EXCEPT !.sd.pump_state = "ON",
                                   !.L.pump_timer = now_m,
                                   !.sd.cycle_count = @ + 1], TRUE)
             EXCEPT !.sd.pump_phase_end_ts = now_m + m.L.pump_on]
    ELSE m

\* turn the main pump ON when due
SchedPumpStart(m, now_wall, now_m) ==
    IF m.L.next_on_due_at # NoneT /\ now_wall >= m.L.next_on_due_at
    THEN [_set_main_pump([m EXCEPT !.sd.pump_state = "ON",
                                   !.L.pump_timer = now_m,
                                   !.sd.cycle_count = @ + 1], TRUE)
             EXCEPT !.sd.pump_phase_end_ts = now_m + m.L.pump_on]
    ELSE m

\* pump is ON: turn it OFF after pump_on seconds and schedule the next start
SchedPumpStop(m, now_wall, now_m) ==
    IF now_m - m.L.pump_timer >= m.L.pump_on
    THEN LET air_pump_off(d) ==
                 [(IF d.sd.air_pump_state = "ON"
                   THEN [_set_air_pump(d, FALSE) EXCEPT !.sd.air_pump_state = "OFF"]
                   ELSE d)
                  EXCEPT !.sd.air_pump_phase_end_ts = NoneT]
             agitator_off(b) ==
                 air_pump_off(
                   [(IF b.sd.agitator_state = "ON"
                     THEN [_set_agitator(b, FALSE) EXCEPT !.sd.agitator_state = "OFF"]
                     ELSE b)
                    EXCEPT !.sd.agitator_phase_end_ts = NoneT])
             next_cycle(a) ==
                 agitator_off(
                   [a EXCEPT !.L.next_on_due_at = _schedule_next_on(a.L, now_wall),
                             !.L.agitator_started_this_cycle = FALSE,
                             !.L.air_started_this_cycle = FALSE,
                             !.sd.pump_phase_end_ts = NoneT])
         IN next_cycle(_set_main_pump([m EXCEPT !.sd.pump_state = "OFF",
                                                !.L.pump_timer = now_m], FALSE))
    ELSE m

\* scheduler (pump + premix)
Scheduler(m, now_wall, now_m) ==
    IF m.L.pump_off <= 0 /\ m.L.pump_on <= 0
    THEN SchedulerDisabled(m)
    ELSE LET pump_phase(a) ==
                 IF a.sd.pump_state # "ON"
                 THEN SchedPumpStart(
                        SchedAgitator(
                          SchedAir(IF a.L.next_on_due_at = NoneT
                                   THEN [a EXCEPT !.L.next_on_due_at =
                                             _schedule_next_on(a.L, now_wall)]
                                   ELSE a,
                                   now_wall, now_m),
                          now_wall, now_m),
                        now_wall, now_m)
                 ELSE SchedPumpStop(a, now_wall, now_m)
         IN pump_phase(IF m.sd.startup_kick
                       THEN _trigger_startup_premix(
                                [m EXCEPT !.sd.startup_kick = FALSE],
                                now_wall, now_m, FALSE)
                       ELSE m)

\* countdown refresh: repairs a missing phase end of an actuator that is
\* ON and clears the phase end of a premix actuator that is OFF
Countdowns(m, now_m) ==
    LET end_ts == m.sd.pump_phase_end_ts
        rem_val == m.L.pump_on - (now_m - m.L.pump_timer)
        air_pump_countdown(b) ==
            LET ap_end == b.sd.air_pump_phase_end_ts
            IN IF b.sd.air_pump_state = "ON"
               THEN IF ~(ap_end # NoneT /\ ap_end > 0)
                    THEN [b EXCEPT !.sd.air_pump_phase_end_ts =
                                       b.L.air_timer + b.L.air_run]
                    ELSE b
               ELSE [b EXCEPT !.sd.air_pump_phase_end_ts = NoneT]
        agitator_countdown(a) ==
            LET a_end == a.sd.agitator_phase_end_ts
            IN air_pump_countdown(
                 IF a.sd.agitator_state = "ON"
                 THEN IF ~(a_end # NoneT /\ a_end > 0)
                      THEN [a EXCEPT !.sd.agitator_phase_end_ts =
                                         a.L.agitator_timer + a.L.ag_run]
                      ELSE a
                 ELSE [a EXCEPT !.sd.agitator_phase_end_ts = NoneT])
    IN agitator_countdown(
         IF m.sd.pump_state = "ON" /\ ~(end_ts # NoneT /\ end_ts > 0) /\ rem_val > 0
         THEN [m EXCEPT !.sd.pump_phase_end_ts = now_m + rem_val]
         ELSE m)

\* periodic state save (for resume)
StateSaveInterval == 60

\* next_gs_reload = now + 5.0
GsReloadInterval == 5

\* periodic global settings refresh: the loop's copy of the settings and
\* the premix configuration follow the settings on disk
ReloadSettings(m, g, now_wall) ==
    IF now_wall >= m.L.next_gs_reload
    THEN [m EXCEPT !.L.gs = g,
                   !.L.next_gs_reload = now_wall + GsReloadInterval,
                   !.L.ag_enabled = g.agitator_enabled,
                   !.L.ag_run = _safe_seconds(g.agitator_run_sec, m.L.ag_run),
                   !.L.air_enabled = g.air_pump_enabled,
                   !.L.air_run = _safe_seconds(g.air_pump_run_sec, m.L.air_run)]
    ELSE m

\* _next_reload_check = now + 3.0
ProfileReloadInterval == 3

\* hot reload of the profile JSON.  prof is the file on disk: prof.mtime
\* its modification time and prof.shape what json.load makes of it:
\*   "ok"              a profile of the expected shape
\*   "unparsable"      json.load raises
\*   "list"            a JSON value that is not an object
\*   "temperature_str" an object whose "temperature" is not an object
\*   "pump_str"        an object whose "pump" is not an object
\* _apply_profile_cfg assigns profile_data = cfg before it reads cfg, and
\* the handler around the reload swallows what it raises afterwards.
HotReload(m, prof, now_wall) ==
    LET checked == [m EXCEPT !.L._next_reload_check =
                                 now_wall + ProfileReloadInterval]
        thresholds(a) ==
            [a EXCEPT !.sd.temperature_min = prof.temperature_min,
                      !.sd.temperature_max = prof.temperature_max,
                      !.sd.humidity_min = prof.humidity_min,
                      !.sd.humidity_max = prof.humidity_max]
    IN IF now_wall < m.L._next_reload_check THEN m
       ELSE IF ~(prof.mtime > m.L._last_profile_mtime) THEN checked
       ELSE IF prof.shape = "unparsable" THEN checked
       ELSE IF prof.shape = "list"
       THEN [checked EXCEPT !.L.profile_data_readable = FALSE]
       ELSE IF prof.shape = "temperature_str"
       THEN \* profile_data is the new object, without _win_on_h/_win_off_h
            [checked EXCEPT !.L.profile_data_readable = TRUE,
                            !.L.win_on = NoneT, !.L.win_off = NoneT]
       ELSE IF prof.shape = "pump_str"
       THEN [thresholds(checked)
                 EXCEPT !.L.ag_enabled = FALSE, !.L.ag_run = 0,
                        !.L.air_enabled = FALSE, !.L.air_run = 0,
                        !.L.profile_data_readable = FALSE]
       ELSE [thresholds(checked)
                 EXCEPT !.L.pump_on = _safe_seconds(prof.on_duration_sec, m.L.pump_on),
                        !.L.pump_off = _safe_seconds(prof.off_duration_sec, m.L.pump_off),
                        !.L.ag_enabled = FALSE,
                        !.L.air_enabled = FALSE,
                        !.L.win_on = prof.on_time,
                        !.L.win_off = prof.off_time,
                        !.L.profile_data_readable = TRUE,
                        !.L._last_profile_mtime = prof.mtime]

SavedState(m, lt, lh) ==
    [running_profile |-> m.L.profile_name, cycle_count |-> m.sd.cycle_count,
     pump_state |-> m.sd.pump_state, fan_state |-> m.sd.fan_state,
     paused |-> m.sd.paused]

NoState == [running_profile |-> "None", cycle_count |-> 0, pump_state |-> "OFF",
            fan_state |-> "OFF", paused |-> FALSE]

\* One iteration of the loop body.  The result carries `branch`, the way
\* the iteration ended: "paused", "crash" (an exception left the thread),
\* "hard_stop", "window" or "sched".
TickBody(m0, g, prof, inp, lt, lh, t) ==
    LET now_wall == Wall(t)
        now_m    == Mono(t)
        paused_now == m0.sd.paused
        window_gate(m4) ==
            \* profile_data.get("pump", {}).get("_win_on_h")
            IF ~m4.L.profile_data_readable THEN [m |-> m4, branch |-> "crash"]
            ELSE IF ~_in_hour_window(m4.L.win_on, m4.L.win_off, now_wall)
            THEN [m |-> WindowClosedBranch(m4, now_wall), branch |-> "window"]
            ELSE [m |-> Countdowns(Scheduler(m4, now_wall, now_m), now_m),
                  branch |-> "sched"]
        hard_limits(m3) ==
            IF m3.raised THEN [m |-> m3, branch |-> "crash"]
            ELSE IF m3.ret THEN [m |-> HardStopBranch(m3), branch |-> "hard_stop"]
            ELSE window_gate(Climate(ClearPhantomError(m3), m3.L.gs, lt, lh))
        sensors(m2) ==
            hard_limits(EvaluateAlerts(ReadReservoir(m2, inp), m2.L.gs, lt, now_wall))
        after_edges(m1) ==
            IF paused_now THEN [m |-> PausedBranch(m1), branch |-> "paused"]
            ELSE sensors(HotReload(ReloadSettings(m1, g, now_wall), prof, now_wall))
    IN after_edges(PauseResumeEdges(m0, now_wall, now_m))

----------------------------------------------------------------------------
(* Initial state: the process has just started.  A state file may be left  *)
(* from an earlier life of the process.                                    *)

StatusInit ==
    [profile |-> "None", pump_state |-> "OFF", fan_state |-> "OFF",
     heater_state |-> "OFF", humidifier_state |-> "OFF",
     agitator_state |-> "OFF", air_pump_state |-> "None",
     paused |-> FALSE, cycle_count |-> 0, last_error |-> "None",
     pump_phase_end_ts |-> NoneT, agitator_phase_end_ts |-> NoneT,
     air_pump_phase_end_ts |-> NoneT,
     pump_resume_phase |-> "None", pump_resume_remaining_s |-> NoneT,
     agitator_resume_phase |-> "None", agitator_resume_remaining_s |-> NoneT,
     air_pump_resume_phase |-> "None", air_pump_resume_remaining_s |-> NoneT,
     startup_kick |-> FALSE,
     temperature_min |-> NoneT, temperature_max |-> NoneT,
     humidity_min |-> NoneT, humidity_max |-> NoneT]

AllOff == [a \in Actuators |-> FALSE]

DrvInit == [pump_on |-> FALSE, fan_on |-> FALSE, heater_on |-> FALSE,
            humidifier_on |-> FALSE, agitator_on |-> FALSE, air_pump_on |-> FALSE,
            fan_on_since |-> NoneT, heater_on_since |-> NoneT]

\* history of the last step: its kind, how a loop iteration ended, values
\* from before it, and what the routes did
EvInit == [kind |-> "init", branch |-> "none", pre_cycle |-> 0, pre_due |-> NoneT,
           resume_edge |-> FALSE, active |-> FALSE, events |-> {},
           pause_r |-> 0, from_checkpoint |-> FALSE, crash_premix |-> FALSE,
           routes |-> 0, name |-> "None", breach_now |-> FALSE,
           recovered_now |-> FALSE, pre_al |-> [k \in AlertKinds |-> NoAlert],
           ret |-> FALSE, reminded |-> [k \in AlertKinds |-> NoneT], gap |-> NoneT,
           pre_pump |-> "OFF", pre_kick |-> FALSE, kick_due |-> NoneT,
           pre_on |-> [fan |-> FALSE, heater |-> FALSE],
           pre_since |-> [fan |-> NoneT, heater |-> NoneT],
           none_read |-> FALSE, w |-> NoneT, pre_label |-> "None",
           first_at |-> [k \in AlertKinds |-> NoneT]]

\* profiles on disk
BaseProfile == [on_duration_sec |-> 2, off_duration_sec |-> 2,
                on_time |-> NoneT, off_time |-> NoneT,
                temperature_min |-> 2, temperature_max |-> 3,
                humidity_min |-> 1, humidity_max |-> 2,
                mtime |-> 0, shape |-> "ok"]

Profiles == {BaseProfile,
             [BaseProfile EXCEPT !.on_time = 1, !.off_time = 3]}

Settings == {BaseSettings,
             [BaseSettings EXCEPT !.agitator_enabled = TRUE, !.agitator_run_sec = 2,
                                  !.air_pump_enabled = TRUE, !.air_pump_run_sec = 1]}

\* what save_state can have left on disk
SavedStates == {[NoState EXCEPT !.running_profile = PName, !.pump_state = ps,
                                !.fan_state = fs]
                  : ps \in {"ON", "OFF"}, fs \in {"ON", "OFF"}}

\* dose worker threads (one per accepted dose request)
MaxWorkers == 2
Workers == 1..MaxWorkers

\* a _dose_worker thread: its position, the _gen argument, the my_gen of
\* run_dose, the planned seconds, the pump letter of the current _run_exact
\* and its t_end (the my_gen of _run_exact is written and never used)
WorkerInit == [pc |-> "idle", _gen |-> 0, my_gen |-> 0,
               dur |-> [A |-> 0, B |-> 0], letter |-> "A", t_end |-> 0]

DoseInit == [DOSE_GEN |-> 0, DOSE_CANCEL |-> FALSE, _DOSE_LOCK |-> 0,
             pin |-> [A |-> FALSE, B |-> FALSE],
             dosing_gen |-> 0, dosing_running |-> FALSE, dosing_phase |-> "None",
             nutrient_on |-> [A |-> FALSE, B |-> FALSE],
             W |-> [w \in Workers |-> WorkerInit],
             stops |-> 0, stopped |-> {}]

\* no superseded worker thread
NoWorker == [pc |-> "none", L |-> LocalsInit]

InitWith(profs, sets, saved) ==
    /\ now = 0
    /\ running_profile = "None"
    /\ STOP_EVENT = FALSE
    /\ pc = "none"
    /\ sd = StatusInit
    /\ alert_states = [k \in AlertKinds |-> NoAlert]
    /\ L = LocalsInit
    /\ drv = DrvInit
    /\ pin = AllOff
    /\ pump_configured = TRUE
    /\ state_file \in saved
    /\ profile \in profs
    /\ gs \in sets
    /\ last_temp = NoneT
    /\ last_humidity = NoneT
    /\ ev = EvInit
    /\ dose = DoseInit
    /\ old = NoWorker

Init == InitWith(Profiles, Settings, SavedStates \cup {NoState})

----------------------------------------------------------------------------
(* Actions *)

Unpack(m) ==
    /\ sd' = m.sd
    /\ L' = m.L
    /\ drv' = m.drv
    /\ pin' = m.pin
    /\ alert_states' = m.al

WorkerAlive == pc \in {"start", "loop", "wait"}

\* _start_sim_thread
StartThread ==
    /\ STOP_EVENT' = FALSE
    /\ pc' = "start"

\* POST /run/<profile_name>
run_profile ==
    /\ ev.routes < MaxRoutes
    /\ ~WorkerAlive
    /\ sd' = [sd EXCEPT !.paused = FALSE, !.last_error = "None",
                        !.pump_state = "OFF", !.pump_phase_end_ts = NoneT,
                        !.pump_resume_phase = "None",
                        !.pump_resume_remaining_s = NoneT,
                        !.agitator_state = "OFF",
                        !.agitator_phase_end_ts = NoneT,
                        !.startup_kick = TRUE,
                        !.profile = PName]
    /\ running_profile' = PName
    /\ state_file' = [running_profile |-> PName, cycle_count |-> 0,
                      pump_state |-> "OFF", fan_state |-> sd.fan_state,
                      paused |-> FALSE]
    /\ StartThread
    /\ ev' = [EvInit EXCEPT !.kind = "route", !.routes = ev.routes + 1]
    /\ UNCHANGED <<now, alert_states, L, drv, pin, pump_configured, profile, gs,
                   last_temp, last_humidity, dose, old>>

\* POST /resume
resume_profile ==
    /\ ev.routes < MaxRoutes
    /\ ~WorkerAlive
    /\ running_profile = "None"
    /\ state_file.running_profile # "None"
    /\ running_profile' = PName
    /\ LET s1 == [sd EXCEPT !.profile = PName,
                            !.pump_state = state_file.pump_state,
                            !.fan_state = state_file.fan_state,
                            !.cycle_count = state_file.cycle_count,
                            !.paused = state_file.paused,
                            !.heater_state = "OFF",
                            !.humidifier_state = "OFF",
                            !.agitator_state = "OFF"]
       IN /\ sd' = s1
          /\ pin' = apply_outputs_from_status(s1, pin, pump_configured)
    /\ StartThread
    /\ state_file' = NoState
    /\ ev' = [EvInit EXCEPT !.kind = "route", !.from_checkpoint = TRUE,
                           !.routes = ev.routes + 1]
    /\ UNCHANGED <<now, alert_states, L, drv, pump_configured, profile, gs,
                   last_temp, last_humidity, dose, old>>

\* simulate_profile up to the loop head
Startup ==
    /\ pc = "start"
    /\ LET m == StartupBody(Pack, profile, gs, now)
       IN /\ Unpack(m)
          /\ ev' = [ev EXCEPT !.kind = "startup", !.branch = "none",
                              !.crash_premix = (sd.pump_state = "ON" /\ ~sd.paused)]
    /\ running_profile' = L.profile_name
    /\ pc' = "loop"
    /\ UNCHANGED <<now, STOP_EVENT, pump_configured, state_file, profile, gs,
                   last_temp, last_humidity, dose, old>>

\* one iteration of `while running_profile == profile_name and not STOP_EVENT`
Tick(inp) ==
    /\ pc = "loop"
    /\ running_profile = L.profile_name /\ ~STOP_EVENT
    /\ LET paused_now == sd.paused
           lt == IF paused_now \/ inp.temp = NoneT THEN last_temp ELSE inp.temp
           lh == IF paused_now \/ inp.hum = NoneT THEN last_humidity ELSE inp.hum
           r  == TickBody(Pack, gs, profile, inp, lt, lh, now)
           save == /\ r.branch = "sched"
                   /\ Wall(now) - r.m.L.last_state_save >= StateSaveInterval
           m  == IF save THEN [r.m EXCEPT !.L.last_state_save = Wall(now)] ELSE r.m
       IN /\ Unpack(m)
          /\ last_temp' = lt
          /\ last_humidity' = lh
          /\ state_file' = IF save THEN SavedState(m, lt, lh) ELSE state_file
          /\ pc' = IF r.branch = "crash" THEN "crashed"
                   ELSE IF r.branch = "hard_stop" /\ ~pump_configured THEN "loop"
                   ELSE "wait"
          /\ ev' = [ev EXCEPT !.kind = "tick", !.branch = r.branch,
                              !.pre_cycle = sd.cycle_count,
                              !.pre_due = L.next_on_due_at,
                              !.pre_pump = sd.pump_state,
                              !.pre_kick = sd.startup_kick,
                              !.pre_on = [fan |-> sd.fan_state = "ON" /\ pin.fan,
                                          heater |-> sd.heater_state = "ON" /\ pin.heater],
                              !.pre_since = [fan |-> drv.fan_on_since,
                                             heater |-> drv.heater_on_since],
                              !.none_read = (inp.temp = NoneT /\ inp.hum = NoneT),
                              \* the due time set by the last kick, until the
                              \* pump starts a cycle
                              !.kick_due =
                                  IF sd.startup_kick /\ ~m.sd.startup_kick
                                  THEN m.L.next_on_due_at
                                  ELSE IF m.sd.cycle_count # sd.cycle_count
                                  THEN NoneT ELSE @,
                              !.resume_edge = (~paused_now /\ L.last_paused),
                              !.pre_al = alert_states,
                              !.active = AnyActive(m.al),
                              !.events = m.events]
    /\ UNCHANGED <<now, running_profile, STOP_EVENT, pump_configured, profile, gs, dose,
                   old>>

\* STOP_EVENT.wait(timeout) at the end of an iteration: returns from
\* simulate_profile when the event is set, else the loop goes on
Wait(d, horizon) ==
    /\ pc = "wait"
    /\ now + d <= horizon
    /\ now' = now + d
    /\ pc' = IF STOP_EVENT THEN "returned" ELSE "loop"
    /\ ev' = [ev EXCEPT !.kind = "wait"]
    /\ UNCHANGED <<running_profile, STOP_EVENT, sd, alert_states, L, drv, pin,
                   pump_configured, state_file, profile, gs, last_temp,
                   last_humidity, dose, old>>

\* the status and output writes of the cleanup at thread exit
CleanupBody(m) ==
    LET m0 == [m EXCEPT !.sd.profile = "None", !.sd.pump_state = "OFF",
                        !.sd.fan_state = "OFF", !.sd.heater_state = "OFF",
                        !.sd.humidifier_state = "OFF",
                        !.sd.temperature_min = NoneT, !.sd.temperature_max = NoneT,
                        !.sd.humidity_min = NoneT, !.sd.humidity_max = NoneT]
        m1 == _set_humidifier(_set_heater(_set_air_pump(_set_agitator(
                  _set_main_pump(_set_fan(m0, FALSE), FALSE), FALSE), FALSE), FALSE), FALSE)
    IN [m1 EXCEPT !.sd.agitator_state = "OFF", !.sd.air_pump_state = "OFF",
                  !.sd.air_pump_phase_end_ts = NoneT]

\* the loop condition fails: cleanup at thread exit
Cleanup ==
    /\ pc = "loop"
    /\ ~(running_profile = L.profile_name /\ ~STOP_EVENT)
    /\ running_profile' = "None"
    /\ Unpack(CleanupBody(Pack))
    /\ state_file' = NoState
    /\ pc' = "done"
    /\ ev' = [ev EXCEPT !.kind = "cleanup"]
    /\ UNCHANGED <<now, STOP_EVENT, pump_configured, profile, gs, last_temp,
                   last_humidity, dose, old>>

\* POST /stop
stop_running ==
    /\ ev.routes < MaxRoutes
    /\ running_profile # "None"
    /\ running_profile' = "None"
    /\ LET s1 == [sd EXCEPT !.paused = FALSE,
                            !.temperature_min = NoneT, !.temperature_max = NoneT,
                            !.humidity_min = NoneT, !.humidity_max = NoneT,
                            !.fan_state = "OFF", !.pump_state = "OFF",
                            !.agitator_state = "OFF", !.air_pump_state = "OFF",
                            !.heater_state = "OFF", !.humidifier_state = "OFF",
                            !.pump_resume_phase = "None",
                            !.agitator_resume_phase = "None",
                            !.air_pump_resume_phase = "None",
                            !.pump_resume_remaining_s = NoneT,
                            !.agitator_resume_remaining_s = NoneT,
                            !.air_pump_resume_remaining_s = NoneT,
                            !.pump_phase_end_ts = NoneT,
                            !.agitator_phase_end_ts = NoneT,
                            !.air_pump_phase_end_ts = NoneT]
       IN /\ sd' = s1
          /\ pin' = apply_outputs_from_status(s1, pin, pump_configured)
    /\ state_file' = NoState
    /\ ev' = [ev EXCEPT !.kind = "route", !.routes = @ + 1]
    /\ UNCHANGED <<now, STOP_EVENT, pc, alert_states, L, drv, pump_configured,
                   profile, gs, last_temp, last_humidity, dose, old>>

\* clamp_rem of pause_profile, called with mono_now = 0
clamp_rem(end_ts, mono_now) ==
    IF end_ts = NoneT THEN 0 ELSE Max(0, end_ts - mono_now)

\* POST /pause
pause_profile ==
    /\ ev.routes < MaxRoutes
    /\ running_profile # "None"
    /\ LET rp  == clamp_rem(sd.pump_phase_end_ts, 0)
           rag == clamp_rem(sd.agitator_phase_end_ts, 0)
           rap == clamp_rem(sd.air_pump_phase_end_ts, 0)
           s1 == [sd EXCEPT !.paused = TRUE,
                            !.pump_resume_remaining_s = rp,
                            !.agitator_resume_remaining_s = rag,
                            !.air_pump_resume_remaining_s = rap,
                            !.pump_resume_phase = OnOff(rp > 0),
                            !.agitator_resume_phase = OnOff(rag > 0),
                            !.air_pump_resume_phase = OnOff(rap > 0),
                            !.pump_state = "OFF", !.agitator_state = "OFF",
                            !.air_pump_state = "OFF",
                            !.pump_phase_end_ts = NoneT,
                            !.agitator_phase_end_ts = NoneT,
                            !.air_pump_phase_end_ts = NoneT]
       IN /\ sd' = s1
          /\ pin' = apply_outputs_from_status(s1, pin, pump_configured)
    /\ ev' = [ev EXCEPT !.kind = "route", !.routes = @ + 1,
                        !.pause_r = IF sd.pump_state = "ON" /\ pin.pump /\ ~sd.paused
                                    THEN _rem_from(sd.pump_phase_end_ts, Mono(now))
                                    ELSE IF sd.paused THEN @ ELSE 0]
    /\ UNCHANGED <<now, running_profile, STOP_EVENT, pc, alert_states, L, drv,
                   pump_configured, state_file, profile, gs, last_temp,
                   last_humidity, dose, old>>

\* POST /unpause
unpause_profile ==
    /\ ev.routes < MaxRoutes
    /\ running_profile # "None"
    /\ sd.paused
    /\ sd' = [sd EXCEPT !.paused = FALSE]
    /\ pin' = apply_outputs_from_status(sd, pin, pump_configured)
    /\ ev' = [ev EXCEPT !.kind = "route", !.routes = @ + 1]
    /\ UNCHANGED <<now, running_profile, STOP_EVENT, pc, alert_states, L, drv,
                   pump_configured, state_file, profile, gs, last_temp,
                   last_humidity, dose, old>>

\* SIGTERM: _graceful_stop sets the event
_graceful_stop ==
    /\ ev.routes < MaxRoutes
    /\ ~STOP_EVENT
    /\ STOP_EVENT' = TRUE
    /\ ev' = [ev EXCEPT !.kind = "route", !.routes = @ + 1]
    /\ UNCHANGED <<now, running_profile, pc, sd, alert_states, L, drv, pin,
                   pump_configured, state_file, profile, gs, last_temp,
                   last_humidity, dose, old>>

\* POST /api/reservoirs/unpause: resume the profile and request a premix
api_reservoirs_unpause ==
    /\ ev.routes < MaxRoutes
    /\ running_profile # "None"
    /\ LET s1 == [sd EXCEPT !.paused = FALSE, !.startup_kick = TRUE]
       IN /\ sd' = s1
          /\ pin' = apply_outputs_from_status(s1, pin, pump_configured)
    /\ ev' = [ev EXCEPT !.kind = "route", !.routes = @ + 1]
    /\ UNCHANGED <<now, running_profile, STOP_EVENT, pc, alert_states, L, drv,
                   pump_configured, state_file, profile, gs, last_temp,
                   last_humidity, dose, old>>

\* POST /settings/global: validate_settings, save_global_settings
settings_global(g) ==
    /\ ev.routes < MaxRoutes
    /\ gs' = g
    /\ ev' = [ev EXCEPT !.kind = "route", !.routes = @ + 1]
    /\ UNCHANGED <<now, running_profile, STOP_EVENT, pc, sd, alert_states, L, drv,
                   pin, pump_configured, state_file, profile, last_temp,
                   last_humidity, dose, old>>

\* inputs of one loop iteration
Inputs(temps, hums, ress) == [temp : temps, hum : hums, res : ress]

\* a reading inside every limit
GoodInput == [temp |-> 2, hum |-> 1, res |-> "ok"]

(* The control loop through its life cycle: start, resume from a           *)
(* checkpoint, pause, stop and SIGTERM, with readings inside the limits.   *)
Next ==
    \/ run_profile
    \/ resume_profile
    \/ Startup
    \/ Tick(GoodInput)
    \/ \E d \in 1..MaxStep : Wait(d, MaxTime)
    \/ Cleanup
    \/ stop_running
    \/ pause_profile
    \/ unpause_profile
    \/ _graceful_stop

Spec == Init /\ [][Next]_vars

(* The control loop of a profile whose schedule is disabled (both         *)
(* durations 0), through the same life cycle.                              *)
DisabledProfile == [BaseProfile EXCEPT !.on_duration_sec = 0, !.off_duration_sec = 0]

InitDisabled == InitWith({DisabledProfile}, Settings, SavedStates \cup {NoState})

SpecDisabled == InitDisabled /\ [][Next]_vars

(* The control loop under changing readings: the hard limits, the edge     *)
(* alert registry and climate regulation, with pause and unpause.          *)
AlertInputs == Inputs({NoneT, 0, 1, 2}, {1}, {"ok", "below"})

InitAlert == InitWith({BaseProfile}, Settings, {NoState})

NextAlert ==
    \/ run_profile
    \/ Startup
    \/ \E inp \in AlertInputs : Tick(inp)
    \/ \E d \in 1..MaxStep : Wait(d, MaxTimeAlert)
    \/ pause_profile
    \/ unpause_profile

SpecAlert == InitAlert /\ [][NextAlert]_vars

(* The scheduler alone: one run with a 10 s on-phase and a 20 s off-phase,  *)
(* no window, premix disabled, readings inside the limits, and a loop       *)
(* iteration every second.                                                  *)
MaxTimeSched == 65

SchedProfile == [BaseProfile EXCEPT !.on_duration_sec = 10, !.off_duration_sec = 20]

InitSched == InitWith({SchedProfile}, {BaseSettings}, {NoState})

NextSched ==
    \/ run_profile
    \/ Startup
    \/ Tick(GoodInput)
    \/ Wait(1, MaxTimeSched)

SpecSched == InitSched /\ [][NextSched]_vars

(* The scheduler with premix: runs with the agitator and the air pump      *)
(* enabled, with run durations below, at and above the off-duration, and   *)
(* loop iterations one or more seconds apart.                              *)
PremixSettings ==
    {[BaseSettings EXCEPT !.agitator_enabled = TRUE, !.agitator_run_sec = a,
                          !.air_pump_enabled = TRUE, !.air_pump_run_sec = b]
        : a \in 0..(BaseProfile.off_duration_sec + 1),
          b \in {1, BaseProfile.off_duration_sec + 1}}

InitPremix == InitWith({BaseProfile}, PremixSettings, {NoState})

NextPremix ==
    \/ run_profile
    \/ Startup
    \/ Tick(GoodInput)
    \/ \E d \in 1..MaxStep : Wait(d, MaxTime)

SpecPremix == InitPremix /\ [][NextPremix]_vars

(* The scheduler with premix while the global settings are edited: the     *)
(* settings page saves a premix configuration, or switches premix off, at  *)
(* any time of the run.                                                    *)
ReloadChoices ==
    {s \in PremixSettings : s.agitator_run_sec \in {0, 2} /\ s.air_pump_run_sec = 1}
        \cup {BaseSettings}

InitReload == InitWith({BaseProfile}, ReloadChoices, {NoState})

NextReload ==
    \/ run_profile
    \/ Startup
    \/ Tick(GoodInput)
    \/ \E d \in 1..MaxStep : Wait(d, MaxTime)
    \/ \E g \in ReloadChoices : settings_global(g)

SpecReload == InitReload /\ [][NextReload]_vars

(* The scheduler of a profile whose on-duration is 0 and whose             *)
(* off-duration is not.                                                    *)
ZeroOnProfile == [BaseProfile EXCEPT !.on_duration_sec = 0]

InitZeroOn == InitWith({ZeroOnProfile}, PremixSettings \cup {BaseSettings}, {NoState})

SpecZeroOn == InitZeroOn /\ [][NextPremix]_vars

(* A start that follows a stop before the stopped worker has left its      *)
(* loop: /stop clears running_profile and joins nothing, /run starts a     *)
(* second thread for the same or for another profile.                      *)
QName == "q.json"    \* another profile file

\* POST /run/<name> after POST /stop, the worker of the stopped run still
\* in its loop
run_profile_restart(name) ==
    /\ ev.routes < MaxRoutes
    /\ pc \in {"loop", "wait"} /\ old.pc = "none"
    /\ running_profile = "None"
    /\ sd' = [sd EXCEPT !.paused = FALSE, !.last_error = "None",
                        !.pump_state = "OFF", !.pump_phase_end_ts = NoneT,
                        !.pump_resume_phase = "None",
                        !.pump_resume_remaining_s = NoneT,
                        !.agitator_state = "OFF",
                        !.agitator_phase_end_ts = NoneT,
                        !.startup_kick = TRUE,
                        !.profile = name]
    /\ running_profile' = name
    /\ state_file' = [running_profile |-> name, cycle_count |-> 0,
                      pump_state |-> "OFF", fan_state |-> sd.fan_state,
                      paused |-> FALSE]
    /\ StartThread
    /\ old' = [pc |-> pc, L |-> L]
    /\ L' = [LocalsInit EXCEPT !.profile_name = name]
    /\ ev' = [EvInit EXCEPT !.kind = "restart", !.routes = ev.routes + 1]
    /\ UNCHANGED <<now, alert_states, drv, pin, pump_configured, profile, gs,
                   last_temp, last_humidity, dose>>

\* one iteration of the superseded worker's loop
OldTick(inp) ==
    /\ old.pc = "loop"
    /\ running_profile = old.L.profile_name /\ ~STOP_EVENT
    /\ LET lt == IF sd.paused \/ inp.temp = NoneT THEN last_temp ELSE inp.temp
           lh == IF sd.paused \/ inp.hum = NoneT THEN last_humidity ELSE inp.hum
           r  == TickBody([Pack EXCEPT !.L = old.L], gs, profile, inp, lt, lh, now)
           save == /\ r.branch = "sched"
                   /\ Wall(now) - r.m.L.last_state_save >= StateSaveInterval
           m  == IF save THEN [r.m EXCEPT !.L.last_state_save = Wall(now)] ELSE r.m
       IN /\ sd' = m.sd /\ drv' = m.drv /\ pin' = m.pin /\ alert_states' = m.al
          /\ old' = [pc |-> IF r.branch = "crash" THEN "crashed"
                            ELSE IF r.branch = "hard_stop" /\ ~pump_configured
                            THEN "loop" ELSE "wait",
                     L |-> m.L]
          /\ last_temp' = lt
          /\ last_humidity' = lh
          /\ state_file' = IF save THEN SavedState(m, lt, lh) ELSE state_file
          /\ ev' = [ev EXCEPT !.kind = "old_tick", !.branch = r.branch]
    /\ UNCHANGED <<now, running_profile, STOP_EVENT, pc, L, pump_configured,
                   profile, gs, dose>>

\* STOP_EVENT.wait(timeout) of the superseded worker
OldWait ==
    /\ old.pc = "wait"
    /\ old' = [old EXCEPT !.pc = IF STOP_EVENT THEN "returned" ELSE "loop"]
    /\ ev' = [ev EXCEPT !.kind = "old_wait"]
    /\ UNCHANGED <<now, running_profile, STOP_EVENT, pc, sd, alert_states, L,
                   drv, pin, pump_configured, state_file, profile, gs,
                   last_temp, last_humidity, dose>>

\* the superseded worker's loop condition fails: its cleanup
OldCleanup ==
    /\ old.pc = "loop"
    /\ ~(running_profile = old.L.profile_name /\ ~STOP_EVENT)
    /\ running_profile' = "None"
    /\ LET m == CleanupBody(Pack)
       IN sd' = m.sd /\ drv' = m.drv /\ pin' = m.pin /\ alert_states' = m.al
    /\ state_file' = NoState
    /\ old' = [old EXCEPT !.pc = "done"]
    /\ ev' = [ev EXCEPT !.kind = "old_cleanup"]
    /\ UNCHANGED <<now, STOP_EVENT, pc, L, pump_configured, profile, gs,
                   last_temp, last_humidity, dose>>

NextRestart ==
    \/ run_profile
    \/ Startup
    \/ Tick(GoodInput)
    \/ Wait(1, MaxTimeAlert)
    \/ Cleanup
    \/ stop_running
    \/ \E name \in {PName, QName} : run_profile_restart(name)
    \/ OldTick(GoodInput)
    \/ OldWait
    \/ OldCleanup

SpecRestart == InitSched /\ [][NextRestart]_vars

(* The profile file rewritten under a running loop: by the profile editor  *)
(* (json.dump into the open file, which a reader can catch half-written)   *)
(* or by hand, with content of any of the shapes HotReload tells apart.    *)
MaxWrites == 1

ProfileShapes == {"ok", "unparsable", "list", "temperature_str", "pump_str"}

\* the file after a write: a new modification time, the shape sh, and the
\* on-duration and temperature maximum the writer put into it
write_profile(sh, on_s, t_max) ==
    /\ pc \in {"loop", "wait"}
    /\ profile.mtime < MaxWrites
    /\ profile' = [profile EXCEPT !.mtime = @ + 1, !.shape = sh,
                                  !.on_duration_sec = on_s,
                                  !.temperature_max = t_max]
    /\ ev' = [ev EXCEPT !.kind = "write"]
    /\ UNCHANGED <<now, running_profile, STOP_EVENT, pc, sd, alert_states, L,
                   drv, pin, pump_configured, state_file, gs, last_temp,
                   last_humidity, dose, old>>

InitHotReload == InitWith(Profiles, Settings, {NoState})

NextHotReload ==
    \/ run_profile
    \/ Startup
    \/ Tick(GoodInput)
    \/ \E d \in 1..MaxStep : Wait(d, MaxTime)
    \/ \E sh \in ProfileShapes : write_profile(sh, 1, NoneT)

SpecHotReload == InitHotReload /\ [][NextHotReload]_vars

(* The premix kick: a run that is paused and resumed, through /unpause or  *)
(* through the reservoir wizard's unpause, which asks for a premix.        *)
InitKick == InitWith({BaseProfile}, Settings, {NoState})

NextKick ==
    \/ run_profile
    \/ Startup
    \/ Tick(GoodInput)
    \/ \E d \in 1..MaxStep : Wait(d, MaxTime)
    \/ pause_profile
    \/ unpause_profile
    \/ api_reservoirs_unpause

SpecKick == InitKick /\ [][NextKick]_vars

(* Climate regulation: a run whose air temperature and humidity readings   *)
(* change from one loop iteration to the next, or are missing, with        *)
(* minimum-on times configured for the fan and the heater.                 *)
ClimateSettings == {[BaseSettings EXCEPT !.fan_min_on_s = 2,
                                         !.heater_min_on_s = 2]}

ClimateInputs == Inputs({NoneT, 1, 2, 4}, {NoneT, 0, 1, 3}, {"ok"})

InitClimate == InitWith({BaseProfile}, ClimateSettings, {NoState})

NextClimate ==
    \/ run_profile
    \/ Startup
    \/ \E inp \in ClimateInputs : Tick(inp)
    \/ \E d \in 1..MaxStep : Wait(d, MaxTimeAlert)

SpecClimate == InitClimate /\ [][NextClimate]_vars

(* The edge alert registry alone: any sequence of evaluate calls, on both   *)
(* alert names, with the clock moving between them.                         *)
MaxTimeEdge == 4

\* one call _edge_alert(name, breach_now, recovered_now, msg, cooldown_s)
evaluate(name, breach_now, recovered_now) ==
    /\ pc = "none"
    /\ LET m == _edge_alert(Pack, name, breach_now, recovered_now,
                            gs.hard_alert_cooldown_s, Wall(now))
       IN /\ alert_states' = m.al
          /\ sd' = m.sd
          /\ ev' = [ev EXCEPT !.kind = "evaluate", !.name = name,
                              !.breach_now = breach_now,
                              !.recovered_now = recovered_now,
                              !.pre_al = alert_states,
                              !.ret = m.ret, !.events = m.events,
                              \* the time of the last reminder of the breach that
                              \* is going on, and the distance of this reminder
                              \* from it
                              !.reminded[name] =
                                  IF <<name, "notify_reminder">> \in m.events
                                  THEN Wall(now)
                                  ELSE IF m.al[name].active /\ alert_states[name].active
                                  THEN @ ELSE NoneT,
                              !.gap =
                                  IF <<name, "notify_reminder">> \in m.events
                                     /\ ev.reminded[name] # NoneT
                                  THEN Wall(now) - ev.reminded[name] ELSE NoneT,
                              \* the time of the first-breach notification of
                              \* the breach that is going on
                              !.first_at[name] =
                                  IF <<name, "notify_breach">> \in m.events
                                  THEN Wall(now)
                                  ELSE IF m.al[name].active THEN @ ELSE NoneT]
    /\ UNCHANGED <<now, running_profile, STOP_EVENT, pc, L, drv, pin,
                   pump_configured, state_file, profile, gs, last_temp,
                   last_humidity, dose, old>>

\* time passes between two calls
Elapse ==
    /\ pc = "none"
    /\ now < MaxTimeEdge
    /\ now' = now + 1
    /\ ev' = [ev EXCEPT !.kind = "elapse"]
    /\ UNCHANGED <<running_profile, STOP_EVENT, pc, sd, alert_states, L, drv, pin,
                   pump_configured, state_file, profile, gs, last_temp,
                   last_humidity, dose, old>>

InitEdge == InitWith({BaseProfile}, {BaseSettings}, {NoState})

NextEdge ==
    \/ \E name \in AlertKinds, b \in BOOLEAN, r \in BOOLEAN : evaluate(name, b, r)
    \/ Elapse

SpecEdge == InitEdge /\ [][NextEdge]_vars

(* The window test alone: one call of _in_hour_window for every pair of     *)
(* window hours and every time of the day.                                  *)
Hours == 0..23

InitWindow ==
    /\ now \in 0..(24 * HourLen - 1)
    /\ running_profile = "None"
    /\ STOP_EVENT = FALSE
    /\ pc = "none"
    /\ sd = StatusInit
    /\ alert_states = [k \in AlertKinds |-> NoAlert]
    /\ \E start_h \in Hours, end_h \in Hours :
           L = [LocalsInit EXCEPT !.win_on = start_h, !.win_off = end_h]
    /\ drv = DrvInit
    /\ pin = AllOff
    /\ pump_configured = TRUE
    /\ state_file = NoState
    /\ profile = BaseProfile
    /\ gs = BaseSettings
    /\ last_temp = NoneT
    /\ last_humidity = NoneT
    /\ ev = EvInit
    /\ dose = DoseInit
    /\ old = NoWorker

\* allowed_now = _in_hour_window(win_on, win_off)
window_check ==
    /\ ev.kind = "init"
    /\ ev' = [ev EXCEPT !.kind = "window",
                        !.ret = _in_hour_window(L.win_on, L.win_off, Wall(now))]
    /\ UNCHANGED <<now, running_profile, STOP_EVENT, pc, sd, alert_states, L, drv,
                   pin, pump_configured, state_file, profile, gs, last_temp,
                   last_humidity, dose, old>>

NextWindow == window_check

SpecWindow == InitWindow /\ [][NextWindow]_vars

(* The reservoir classification alone: a tracker fed any sequence of      *)
(* smoothed water values, for every combination of thresholds.  The       *)
(* smoothed value is what the filter of ReservoirTracker.update returns;  *)
(* here it is any value, or none.                                          *)
MaxWater == 5

Thresholds == 0..3

ClassifySettings ==
    {[BaseSettings EXCEPT !.reservoir_full_capacity_kg = u,
                          !.reservoir_full_margin_kg = f,
                          !.reservoir_half_water_kg = h,
                          !.reservoir_low_water_kg = l,
                          !.reservoir_critical_water_kg = c]
        : u \in {0, 2, MaxWater}, f \in {0, 1},
          h \in Thresholds, l \in Thresholds, c \in Thresholds}

InitClassify ==
    /\ now = 0
    /\ running_profile = "None"
    /\ STOP_EVENT = FALSE
    /\ pc = "none"
    /\ sd = StatusInit
    /\ alert_states = [k \in AlertKinds |-> NoAlert]
    /\ \E g \in ClassifySettings : gs = g /\ L = [LocalsInit EXCEPT !.gs = g]
    /\ drv = DrvInit
    /\ pin = AllOff
    /\ pump_configured = TRUE
    /\ state_file = NoState
    /\ profile = BaseProfile
    /\ last_temp = NoneT
    /\ last_humidity = NoneT
    /\ ev = EvInit
    /\ dose = DoseInit
    /\ old = NoWorker

\* label = self._classify(usable, fm, half, low, crit, water_sm,
\* self._last_label); self._last_label = label
Classified(g, tr, w) ==
    _classify(g.reservoir_full_capacity_kg, g.reservoir_full_margin_kg,
              g.reservoir_half_water_kg, g.reservoir_low_water_kg,
              g.reservoir_critical_water_kg, tr.hyst_kg, w, tr._last_label)

\* tracker.update with a smoothed value of w
tracker_update(w) ==
    /\ pc = "none"
    /\ L' = [L EXCEPT !.tracker._last_label = Classified(L.gs, L.tracker, w)]
    /\ ev' = [ev EXCEPT !.kind = "classify", !.w = w,
                        !.pre_label = L.tracker._last_label]
    /\ UNCHANGED <<now, running_profile, STOP_EVENT, pc, sd, alert_states, drv,
                   pin, pump_configured, state_file, profile, gs, last_temp,
                   last_humidity, dose, old>>

NextClassify == \E w \in {NoneT} \cup (0..MaxWater) : tracker_update(w)

SpecClassify == InitClassify /\ [][NextClassify]_vars

----------------------------------------------------------------------------
(* Nutrient dosing: reservoirs/service.py, reservoirs/routes.py and the    *)
(* nutrient pump drivers.  dose._DOSE_LOCK is 0 when free, else the worker *)
(* that holds it; dose.stopped collects the workers that were in progress  *)
(* when an emergency stop returned.                                        *)

MaxTimeDose == 1     \* the clock stops advancing here
MaxStops == 1        \* emergency stops per behaviour

Other(letter) == IF letter = "A" THEN "B" ELSE "A"

\* _set_nutrient_a / _set_nutrient_b: no cached flag, the pin is written
\* every time and status_data mirrors it
_set_nutrient(d, letter, on) ==
    LET o == d.nutrient_on[Other(letter)]
    IN [d EXCEPT !.pin[letter] = on,
                 !.nutrient_on[letter] = on,
                 !.dosing_running = IF on THEN TRUE ELSE o,
                 !.dosing_phase = IF on THEN letter
                                  ELSE IF ~o THEN "None" ELSE @]

\* _seconds_for with a calibration of one ml per second
_seconds_for(ml) == IF ml <= 0 THEN 0 ELSE ml

\* a run_dose that forgets the sequencing lock
DoseLockFree_unlocked(d) == TRUE

\* `with _DOSE_LOCK` can be entered
DoseLockFree(d) == d._DOSE_LOCK = 0

DoseUnchanged == UNCHANGED loopvars

\* POST /api/reservoirs/dose: new generation, clean flags, start the worker
api_reservoirs_dose(w, ml_a, ml_b) ==
    /\ dose.W[w].pc = "idle"
    /\ \A v \in Workers : v < w => dose.W[v].pc # "idle"
    /\ LET g == dose.DOSE_GEN + 1
       IN dose' = [dose EXCEPT !.DOSE_GEN = g, !.dosing_gen = g,
                               !.DOSE_CANCEL = FALSE,
                               !.dosing_running = TRUE, !.dosing_phase = "None",
                               !.nutrient_on = [A |-> FALSE, B |-> FALSE],
                               !.W[w] = [WorkerInit EXCEPT
                                           !.pc = "spawned", !._gen = g,
                                           !.dur = [A |-> _seconds_for(ml_a),
                                                    B |-> _seconds_for(ml_b)]]]
    /\ DoseUnchanged

\* run_dose: clear_dose_cancel_flag()
run_dose_clear(w) ==
    /\ dose.W[w].pc = "spawned"
    /\ dose' = [dose EXCEPT !.DOSE_CANCEL = FALSE, !.W[w].pc = "latch"]
    /\ DoseUnchanged

\* run_dose: my_gen = current_gen()
run_dose_latch(w) ==
    /\ dose.W[w].pc = "latch"
    /\ dose' = [dose EXCEPT !.W[w].my_gen = dose.DOSE_GEN, !.W[w].pc = "acquire"]
    /\ DoseUnchanged

\* run_dose: enter `with _DOSE_LOCK` and mark the run started
run_dose_acquire(w) ==
    /\ dose.W[w].pc = "acquire"
    /\ DoseLockFree(dose)
    /\ dose' = [dose EXCEPT !._DOSE_LOCK = w,
                            !.dosing_running = TRUE, !.dosing_phase = "None",
                            !.W[w].pc = "check", !.W[w].letter = "A"]
    /\ DoseUnchanged

\* run_dose: the guard in front of _run_exact("A", ...) / _run_exact("B", ...)
run_dose_check(w) ==
    /\ dose.W[w].pc = "check"
    /\ LET x == dose.W[w].letter
           go == /\ dose.W[w].dur[x] > 0
                 /\ ~dose.DOSE_CANCEL
                 /\ dose.W[w].my_gen = dose.DOSE_GEN
       IN dose' = [dose EXCEPT
                     !.W[w].pc = IF go THEN "enter"
                                 ELSE IF x = "A" THEN "check" ELSE "end",
                     !.W[w].letter = IF go THEN x ELSE "B"]
    /\ DoseUnchanged

\* _run_exact: mark the phase, compute t_end
_run_exact_enter(w) ==
    /\ dose.W[w].pc = "enter"
    /\ LET x == dose.W[w].letter
       IN dose' = [dose EXCEPT !.dosing_running = TRUE, !.dosing_phase = x,
                               !.nutrient_on[x] = TRUE,
                               !.W[w].t_end = Mono(now) + dose.W[w].dur[x],
                               !.W[w].pc = "on"]
    /\ DoseUnchanged

\* _run_exact: _set_nutrient_a(True) / _set_nutrient_b(True)
_run_exact_on(w) ==
    /\ dose.W[w].pc = "on"
    /\ dose' = [_set_nutrient(dose, dose.W[w].letter, TRUE) EXCEPT
                   !.W[w].pc = "sleep"]
    /\ DoseUnchanged

\* _sleep_until returns: cancelled, or the deadline has passed
_sleep_until(w) ==
    /\ dose.W[w].pc = "sleep"
    /\ dose.DOSE_CANCEL \/ Mono(now) >= dose.W[w].t_end
    /\ dose' = [dose EXCEPT !.W[w].pc = "off"]
    /\ DoseUnchanged

\* a _run_exact without the finally block: the pump is left as it is
_run_exact_off_skipped(w) ==
    /\ dose.W[w].pc = "off"
    /\ dose' = [dose EXCEPT !.W[w].t_end = 0, !.W[w].pc = "after"]
    /\ DoseUnchanged

\* _run_exact: the finally block switches the pump off
_run_exact_off(w) ==
    /\ dose.W[w].pc = "off"
    /\ LET x == dose.W[w].letter
       IN dose' = [_set_nutrient(dose, x, FALSE) EXCEPT
                      !.nutrient_on[x] = FALSE,
                      !.W[w].t_end = 0,
                      !.W[w].pc = "after"]
    /\ DoseUnchanged

\* run_dose has returned into _dose_worker: only _gen is still in use
Returned(wk) == [WorkerInit EXCEPT !.pc = "finally", !._gen = wk._gen]

\* run_dose: after _run_exact, return early when cancelled
run_dose_after(w) ==
    /\ dose.W[w].pc = "after"
    /\ dose' = IF dose.DOSE_CANCEL
               THEN [dose EXCEPT !.dosing_phase = "None", !.dosing_running = FALSE,
                                 !._DOSE_LOCK = 0, !.W[w] = Returned(dose.W[w])]
               ELSE IF dose.W[w].letter = "A"
               THEN [dose EXCEPT !.W[w].letter = "B", !.W[w].pc = "check"]
               ELSE [dose EXCEPT !.W[w].pc = "end"]
    /\ DoseUnchanged

\* run_dose: clear the flags if still the active generation, leave the lock
run_dose_end(w) ==
    /\ dose.W[w].pc = "end"
    /\ LET mine == dose.W[w].my_gen = dose.DOSE_GEN
       IN dose' = [dose EXCEPT
                     !.dosing_phase = IF mine THEN "None" ELSE @,
                     !.dosing_running = IF mine THEN FALSE ELSE @,
                     !._DOSE_LOCK = 0, !.W[w] = Returned(dose.W[w])]
    /\ DoseUnchanged

\* _dose_worker: the finally block tidies the flags of its own generation;
\* the thread ends and its locals are gone
_dose_worker(w) ==
    /\ dose.W[w].pc = "finally"
    /\ LET tidy == /\ dose.dosing_gen = dose.W[w]._gen
                   /\ ~dose.nutrient_on.A /\ ~dose.nutrient_on.B
       IN dose' = [dose EXCEPT
                     !.dosing_running = IF tidy THEN FALSE ELSE @,
                     !.dosing_phase = IF tidy THEN "None" ELSE @,
                     !.W[w] = [WorkerInit EXCEPT !.pc = "done"]]
    /\ DoseUnchanged

DoseInProgress(w) == dose.W[w].pc \notin {"idle", "done"}

\* POST /api/nutrient/stop
api_nutrient_emergency_stop ==
    /\ dose.stops < MaxStops
    /\ LET d == _set_nutrient(_set_nutrient(dose, "A", FALSE), "B", FALSE)
           g == dose.DOSE_GEN + 1
       IN dose' = [d EXCEPT !.DOSE_CANCEL = TRUE,
                            !.DOSE_GEN = g, !.dosing_gen = g,
                            !.dosing_running = FALSE, !.dosing_phase = "None",
                            !.nutrient_on = [A |-> FALSE, B |-> FALSE],
                            !.stops = @ + 1,
                            !.stopped = @ \cup {w \in Workers : DoseInProgress(w)}]
    /\ DoseUnchanged

\* time passes
DoseElapse ==
    /\ now < MaxTimeDose
    /\ now' = now + 1
    /\ dose' = dose
    /\ UNCHANGED <<running_profile, STOP_EVENT, pc, sd, alert_states, L, drv, pin,
                   pump_configured, state_file, profile, gs, last_temp,
                   last_humidity, ev, old>>

\* the millilitres of A and B a request asks for
DoseRequests == {[A |-> 1, B |-> 1], [A |-> 0, B |-> 1]}

InitDose == InitWith({BaseProfile}, {BaseSettings}, {NoState})

NextDose ==
    \/ \E w \in Workers, r \in DoseRequests : api_reservoirs_dose(w, r.A, r.B)
    \/ \E w \in Workers : run_dose_clear(w)
    \/ \E w \in Workers : run_dose_latch(w)
    \/ \E w \in Workers : run_dose_acquire(w)
    \/ \E w \in Workers : run_dose_check(w)
    \/ \E w \in Workers : _run_exact_enter(w)
    \/ \E w \in Workers : _run_exact_on(w)
    \/ \E w \in Workers : _sleep_until(w)
    \/ \E w \in Workers : _run_exact_off(w)
    \/ \E w \in Workers : run_dose_after(w)
    \/ \E w \in Workers : run_dose_end(w)
    \/ \E w \in Workers : _dose_worker(w)
    \/ api_nutrient_emergency_stop
    \/ DoseElapse

SpecDose == InitDose /\ [][NextDose]_vars

(* Dosing with threads that keep running and a clock that keeps going: the  *)
(* steps of one worker thread, and time, which passes at least until every  *)
(* deadline a _sleep_until waits for has come.                              *)
WorkerStep(w) ==
    \/ run_dose_clear(w)
    \/ run_dose_latch(w)
    \/ run_dose_acquire(w)
    \/ run_dose_check(w)
    \/ _run_exact_enter(w)
    \/ _run_exact_on(w)
    \/ _sleep_until(w)
    \/ _run_exact_off(w)
    \/ run_dose_after(w)
    \/ run_dose_end(w)
    \/ _dose_worker(w)

DoseClock ==
    /\ \/ now < MaxTimeDose
       \/ \E w \in Workers : dose.W[w].pc = "sleep" /\ Mono(now) < dose.W[w].t_end
    /\ now' = now + 1
    /\ dose' = dose
    /\ UNCHANGED <<running_profile, STOP_EVENT, pc, sd, alert_states, L, drv, pin,
                   pump_configured, state_file, profile, gs, last_temp,
                   last_humidity, ev, old>>

NextDoseLive ==
    \/ \E w \in Workers, r \in DoseRequests : api_reservoirs_dose(w, r.A, r.B)
    \/ \E w \in Workers : WorkerStep(w)
    \/ api_nutrient_emergency_stop
    \/ DoseClock

SpecDoseLive ==
    /\ InitDose /\ [][NextDoseLive]_vars
    /\ \A w \in Workers : WF_vars(WorkerStep(w))
    /\ WF_vars(DoseClock)

TypeOK ==
    /\ now \in 0..MaxTime
    /\ pc \in {"none", "start", "loop", "wait", "done", "returned", "crashed"}
    /\ running_profile \in {"None", PName}
    /\ \A a \in Actuators : pin[a] \in BOOLEAN

----------------------------------------------------------------------------
(* Properties of the control loop *)

AllPinsOff == \A a \in Actuators : ~pin[a]

LoopTick == ev.kind = "tick"

HardStopTick == ev.kind = "tick" /\ ev.branch = "hard_stop"

\* C1: on every tick in which an alert evaluation returned hard_stop, all
\* six actuator outputs are off at the end of the tick and the scheduler
\* did not run: no pump cycle was started and the next-due time is unchanged
\* (the resume path of a tick that follows an unpause may move the due time
\* before the alerts are evaluated)
C1_HardStopForcesAllOff ==
    HardStopTick =>
        /\ AllPinsOff
        /\ sd.cycle_count = ev.pre_cycle
        /\ (~ev.resume_edge => L.next_on_due_at = ev.pre_due)

\* C2: a tick that ends with some alert kind active is a hard-stop tick
\* (neither climate regulation nor the scheduler ran) and leaves every
\* actuator off
C2_ActiveAlertSuspendsControl ==
    (ev.kind = "tick" /\ ev.branch \in {"hard_stop", "window", "sched"}
        /\ AnyActive(alert_states))
    => (ev.branch = "hard_stop" /\ AllPinsOff)

WorkerJustExited ==
    \/ ev.kind = "wait" /\ pc = "returned"
    \/ ev.kind = "cleanup" /\ pc = "done"

\* C5: when the control-loop worker exits, by the stop flag seen in a wait
\* or by the end of the run, all six actuator outputs are off
C5_WorkerExitsWithAllOff == WorkerJustExited => AllPinsOff

ResumeTickAfterPumpPause ==
    /\ ev.kind = "tick" /\ ev.resume_edge /\ ev.branch = "sched"
    /\ ev.pause_r > 0 /\ ev.pause_r < L.pump_on

\* C6: a run paused with r seconds of the on-phase left has, at the end of
\* the resume tick, the pump ON with r seconds to go
C6_ResumeKeepsRemaining ==
    ResumeTickAfterPumpPause =>
        /\ pin.pump
        /\ sd.pump_state = "ON"
        /\ sd.pump_phase_end_ts = Mono(now) + ev.pause_r
        /\ L.pump_timer + L.pump_on = Mono(now) + ev.pause_r

WindowClosedTick == ev.kind = "tick" /\ ev.branch = "window"

\* C8: at the end of a tick outside the allowed window the main pump, the
\* agitator and the air pump are off in status_data and at the outputs, and
\* the next-due time is the next window-open timestamp
C8_WindowClosedAllOff ==
    WindowClosedTick =>
        /\ ~pin.pump /\ ~pin.agitator /\ ~pin.air_pump
        /\ sd.pump_state # "ON" /\ sd.agitator_state # "ON" /\ sd.air_pump_state # "ON"
        /\ L.next_on_due_at = _next_window_open_ts(L.win_on, L.win_off, Wall(now))

\* C9: in a run resumed from a checkpoint that recorded the pump ON and not
\* paused, the pump output is off from the start of the loop until the
\* scheduler starts the first cycle
C9_CrashResumePumpOffUntilPremixDone ==
    (ev.crash_premix /\ pc \in {"loop", "wait"} /\ sd.cycle_count = 0) => ~pin.pump

\* the cached on/off flag of the driver of actuator a
DriverFlag(a) ==
    CASE a = "pump"       -> drv.pump_on
      [] a = "fan"        -> drv.fan_on
      [] a = "heater"     -> drv.heater_on
      [] a = "humidifier" -> drv.humidifier_on
      [] a = "agitator"   -> drv.agitator_on
      [] a = "air_pump"   -> drv.air_pump_on

\* C40: in every state the cached on/off flag of each actuator driver
\* equals the level last written to that actuator's pin
C40_DriverFlagEqualsPin == \A a \in Actuators : DriverFlag(a) = pin[a]

----------------------------------------------------------------------------
(* Properties of the scheduler *)

Period == L.pump_on + L.pump_off

PhaseStart == (now \div Period) * Period

\* C7: with a 10 s on-phase, a 20 s off-phase, premix disabled and no window,
\* after the start at t = 0 and after every loop iteration the pump is ON
\* exactly in [0,10), [30,40), [60,70), ...: an on-phase starts at each
\* multiple of 30 s, and while the pump is OFF the next start is due at the
\* switch-off time plus the off-duration
C7_PumpFollowsSchedule ==
    (ev.kind \in {"startup", "tick"}) =>
        /\ pin.pump <=> (now % Period) < L.pump_on
        /\ sd.pump_state = OnOff(pin.pump)
        /\ pin.pump => /\ L.pump_timer = Mono(PhaseStart)
                       /\ sd.cycle_count = (now \div Period) + 1
        /\ ~pin.pump => L.next_on_due_at = Wall(PhaseStart + L.pump_on) + L.pump_off

\* the third on-phase has begun, at t = 60
C7_Witness ==
    /\ ev.kind = "tick" /\ now = 2 * Period /\ L.pump_on = 10 /\ L.pump_off = 20
    /\ pin.pump /\ sd.cycle_count = 3

\* a loop iteration that went through the scheduler with both durations <= 0
DisabledSchedulerTick ==
    /\ ev.kind = "tick" /\ ev.branch = "sched"
    /\ L.pump_on <= 0 /\ L.pump_off <= 0

\* C19: at the end of a scheduler iteration of a disabled schedule the main
\* pump, the agitator and the air pump are off, in status_data and at the
\* outputs, and no pump cycle was started
C19_DisabledScheduleAllOff ==
    DisabledSchedulerTick =>
        /\ ~pin.pump /\ ~pin.agitator /\ ~pin.air_pump
        /\ sd.pump_state # "ON" /\ sd.agitator_state # "ON" /\ sd.air_pump_state # "ON"
        /\ sd.cycle_count = ev.pre_cycle

SchedulerTick == ev.kind = "tick" /\ ev.branch = "sched"

PumpStarted ==
    sd.pump_state = "ON" /\ pin.pump /\ sd.cycle_count = ev.pre_cycle + 1

\* the phase end of a premix actuator, a monotonic time, is not after the
\* wall-clock time the pump is due at
EndsByDue(end_ts) == end_ts - Mono(0) <= L.next_on_due_at - Wall(0)

\* C20: the iteration that switches the pump off sets the next start to that
\* time plus the off-duration; an iteration that finds the pump off starts it
\* exactly when the time is at or after the due time, whatever the premix run
\* durations; and while the pump waits, the phase end of a running premix
\* actuator is not later than the pump's due time
C20_PremixNeverDelaysPump ==
    SchedulerTick =>
        /\ (ev.pre_pump = "ON" /\ sd.pump_state = "OFF")
              => L.next_on_due_at = Wall(now) + L.pump_off
        /\ (ev.pre_pump # "ON" /\ ev.pre_due # NoneT)
              => (PumpStarted <=> Wall(now) >= ev.pre_due)
        /\ (sd.pump_state # "ON" /\ L.next_on_due_at # NoneT) =>
              /\ sd.agitator_state = "ON" => EndsByDue(sd.agitator_phase_end_ts)
              /\ sd.air_pump_state = "ON" => EndsByDue(sd.air_pump_phase_end_ts)

\* the agitator, asked to run longer than the off-duration, was started in
\* the second cycle with its phase end cut to the pump's due time
C20_Witness ==
    /\ SchedulerTick /\ L.ag_run > L.pump_off /\ sd.cycle_count = 1
    /\ ev.pre_pump = "OFF" /\ sd.pump_state = "OFF" /\ Wall(now) < L.next_on_due_at
    /\ sd.agitator_state = "ON" /\ pin.agitator
    /\ sd.agitator_phase_end_ts - Mono(0) = L.next_on_due_at - Wall(0)
    /\ sd.agitator_phase_end_ts < Mono(now) + L.ag_run

KickTick ==
    /\ SchedulerTick /\ ev.pre_kick
    /\ ~(L.pump_on <= 0 /\ L.pump_off <= 0)

LongestPremix ==
    Max(IF L.ag_enabled THEN L.ag_run ELSE 0, IF L.air_enabled THEN L.air_run ELSE 0)

\* the request is taken by the scheduler of an enabled schedule and by no
\* other iteration
C22_KickConsumedByScheduler ==
    (LoopTick /\ ev.pre_kick) => (~sd.startup_kick <=> KickTick)

\* the iteration that takes the request leaves the pump off while the due
\* time it set is ahead, and that time is not before the end of the longest
\* premix
C22_KickDelaysPump ==
    KickTick =>
        /\ L.next_on_due_at # NoneT
        /\ L.next_on_due_at >= Wall(now) + LongestPremix
        /\ Wall(now) < L.next_on_due_at => (sd.pump_state # "ON" /\ ~pin.pump)

\* the iteration that takes the request starts every enabled premix actuator
\* that has a positive run duration
C22_KickStartsPremix ==
    KickTick =>
        /\ (L.ag_enabled /\ L.ag_run > 0) => (sd.agitator_state = "ON" /\ pin.agitator)
        /\ (L.air_enabled /\ L.air_run > 0) => (sd.air_pump_state = "ON" /\ pin.air_pump)

\* the scheduler starts no pump cycle before the due time the kick set
C22_NoStartBeforeKickDue ==
    (LoopTick /\ ev.kick_due # NoneT /\ sd.cycle_count # ev.pre_cycle)
        => Wall(now) >= ev.kick_due

\* C22: a pending kick request is consumed on the first scheduler iteration
\* of an enabled schedule: that iteration leaves the main pump off, starts
\* every enabled premix actuator with a positive run duration and sets the
\* pump's next start no earlier than the end of the longest premix, and the
\* pump does not start before that time
C22_KickRunsPremixBeforePump ==
    /\ C22_KickConsumedByScheduler
    /\ C22_KickDelaysPump
    /\ C22_KickStartsPremix
    /\ C22_NoStartBeforeKickDue

----------------------------------------------------------------------------
(* Properties of climate regulation *)

\* C23: at the end of a loop iteration in which the temperature and the
\* humidity sensors both returned none, and which reached climate control,
\* the fan, the heater and the humidifier are OFF
C23_NoReadingForcesClimateOff ==
    (LoopTick /\ ev.none_read /\ ev.branch \in {"sched", "window"}) =>
        /\ sd.fan_state = "OFF" /\ sd.heater_state = "OFF"
        /\ sd.humidifier_state = "OFF"
        /\ ~pin.fan /\ ~pin.heater /\ ~pin.humidifier

\* a loop iteration in which climate regulation ran on a temperature and a
\* humidity
RegulatedTick ==
    /\ LoopTick /\ ev.branch \in {"sched", "window"}
    /\ last_temp # NoneT /\ last_humidity # NoneT

\* C24: a regulated iteration that finds the fan ON and leaves it OFF had
\* both the temperature below temperature_max - hysteresis and the humidity
\* below humidity_max - hysteresis
C24_FanOffOnlyBelowBothBands ==
    (RegulatedTick /\ ev.pre_on.fan /\ sd.fan_state = "OFF") =>
        /\ last_temp < sd.temperature_max - L.gs.hysteresis_temp_c
        /\ last_humidity < sd.humidity_max - L.gs.hysteresis_humidity_pct

\* C25: a regulated iteration with the temperature below temperature_min
\* leaves the heater ON; one that finds the heater ON leaves it ON while the
\* temperature is below temperature_min + hysteresis, and leaves it OFF only
\* when the temperature is at or above temperature_min + hysteresis
C25_HeaterHysteresis ==
    RegulatedTick =>
        /\ last_temp < sd.temperature_min
              => (sd.heater_state = "ON" /\ pin.heater)
        /\ (ev.pre_on.heater /\ last_temp < sd.temperature_min + L.gs.hysteresis_temp_c)
              => (sd.heater_state = "ON" /\ pin.heater)

\* C26: a regulated iteration that finds the fan (the heater) ON for less
\* than fan_min_on_s (heater_min_on_s) seconds leaves it ON
C26_MinimumOnTimeHeld ==
    RegulatedTick =>
        /\ (ev.pre_on.fan /\ ev.pre_since.fan # NoneT
                /\ Mono(now) - ev.pre_since.fan < L.gs.fan_min_on_s)
              => (sd.fan_state = "ON" /\ pin.fan)
        /\ (ev.pre_on.heater /\ ev.pre_since.heater # NoneT
                /\ Mono(now) - ev.pre_since.heater < L.gs.heater_min_on_s)
              => (sd.heater_state = "ON" /\ pin.heater)

----------------------------------------------------------------------------
(* Properties of the reservoir classification *)

ClassifyCall == ev.kind = "classify"

Label == L.tracker._last_label

Severity(l) ==
    IF l = "half" THEN 1 ELSE IF l = "low" THEN 2 ELSE IF l = "critical" THEN 3 ELSE 0

Threshold(l) ==
    IF l = "half" THEN L.gs.reservoir_half_water_kg
    ELSE IF l = "low" THEN L.gs.reservoir_low_water_kg
    ELSE L.gs.reservoir_critical_water_kg

ThresholdsOrdered ==
    /\ L.gs.reservoir_critical_water_kg <= L.gs.reservoir_low_water_kg
    /\ L.gs.reservoir_low_water_kg <= L.gs.reservoir_half_water_kg

C28_ClassifyIdempotent ==
    ClassifyCall => Classified(L.gs, L.tracker, ev.w) = Label

\* an update inside the hysteresis margin above critical kept the label
\* critical instead of the level the value alone would give
C28_Witness ==
    /\ ClassifyCall /\ ev.pre_label = "critical" /\ Label = "critical"
    /\ ev.w # NoneT /\ ev.w > L.gs.reservoir_critical_water_kg
    /\ ev.w <= L.gs.reservoir_low_water_kg

----------------------------------------------------------------------------
(* Properties of the status fields at the end of a tick *)

StateField(a) ==
    IF a = "pump" THEN sd.pump_state
    ELSE IF a = "fan" THEN sd.fan_state
    ELSE IF a = "heater" THEN sd.heater_state
    ELSE IF a = "humidifier" THEN sd.humidifier_state
    ELSE IF a = "agitator" THEN sd.agitator_state
    ELSE sd.air_pump_state

\* C29: at the end of every tick (running, paused, hard-stopped or outside
\* the window) each actuator's status field is "ON" exactly when the level
\* last written to its output is the on level
C29_StatusEqualsCommandedOutput ==
    LoopTick => \A a \in Actuators : (StateField(a) = "ON") <=> pin[a]

\* C30: at the end of every tick the phase end of the pump, the agitator and
\* the air pump is None whenever the status field of that actuator is not ON
C30_PhaseEndClearedWhenOff ==
    LoopTick =>
        /\ sd.pump_state # "ON" => sd.pump_phase_end_ts = NoneT
        /\ sd.agitator_state # "ON" => sd.agitator_phase_end_ts = NoneT
        /\ sd.air_pump_state # "ON" => sd.air_pump_phase_end_ts = NoneT

ResumeFieldsNull ==
    /\ sd.pump_resume_phase = "None" /\ sd.pump_resume_remaining_s = NoneT
    /\ sd.agitator_resume_phase = "None"
    /\ sd.agitator_resume_remaining_s = NoneT
    /\ sd.air_pump_resume_phase = "None"
    /\ sd.air_pump_resume_remaining_s = NoneT

\* C31: the resume fields exist only between a pause edge and the following
\* resume edge: at the end of every tick of a run that is not paused the six
\* fields are None
C31_ResumeFieldsOnlyWhilePaused ==
    (LoopTick /\ ~sd.paused) => ResumeFieldsNull

\* C32: a tick on which a sensor gave no reading (and no earlier good value
\* exists) completes and the loop goes on, also with the matching hard
\* limit configured: no tick ends the worker with an error
C32_MissingReadingNeverEndsLoop ==
    LoopTick => (ev.branch # "crash" /\ pc # "crashed")

\* C33: a loop iteration that finds the profile file malformed (unparsable,
\* or parsable but not of the expected shape) leaves the pump durations,
\* the window hours and the thresholds as they were, leaves the premix
\* settings as they were or as the global settings give them, and does not
\* end the loop
C33_MalformedProfileKeepsConfig ==
    [][(pc = "loop" /\ pc' # "loop" /\ profile.shape # "ok") =>
          /\ pc' # "crashed"
          /\ L'.pump_on = L.pump_on /\ L'.pump_off = L.pump_off
          /\ L'.win_on = L.win_on /\ L'.win_off = L.win_off
          /\ sd'.temperature_min = sd.temperature_min
          /\ sd'.temperature_max = sd.temperature_max
          /\ sd'.humidity_min = sd.humidity_min
          /\ sd'.humidity_max = sd.humidity_max
          /\ L'.ag_enabled \in {L.ag_enabled, gs.agitator_enabled}
          /\ L'.ag_run \in {L.ag_run, gs.agitator_run_sec}
          /\ L'.air_enabled \in {L.air_enabled, gs.air_pump_enabled}
          /\ L'.air_run \in {L.air_run, gs.air_pump_run_sec}]_vars

PausedTick == LoopTick /\ ev.branch = "paused"

\* C34: at the end of every tick of a paused run all six outputs are off
\* and the tick has evaluated no alert, started no pump cycle and moved no
\* due time, after any sequence of pause and unpause requests
C34_PausedTickAllOutputsOff ==
    PausedTick =>
        /\ AllPinsOff
        /\ alert_states = ev.pre_al
        /\ sd.cycle_count = ev.pre_cycle
        /\ L.next_on_due_at = ev.pre_due

\* C36: a tick that evaluates reservoir_cutoff for the first time in the
\* process, with the first reservoir reading at or below the cut-off, ends
\* without an error, hard-stopped, with the alert active and its state
\* holding all four fields
C36_FirstEvaluationActivatesAlert ==
    (/\ LoopTick /\ ev.branch # "paused"
     /\ ev.pre_al["reservoir_cutoff"].keys = "absent"
     /\ L.below_cutoff_now)
        => /\ ev.branch = "hard_stop"
           /\ alert_states["reservoir_cutoff"].keys = "full"
           /\ alert_states["reservoir_cutoff"].active

\* C37: with an on-duration of 0 or less the worker never switches the main
\* pump on, at start-up or on any later tick, whatever the off-duration
C37_ZeroOnDurationNeverStartsPump ==
    (pc \in {"loop", "wait"} /\ L.pump_on <= 0)
        => (~pin.pump /\ sd.pump_state # "ON")

\* C38: after a stop followed by a start the worker of the stopped run
\* passes its loop condition no more, so that only the new worker goes on
\* looping, and its exit leaves the run of a new worker that has reached
\* its loop registered: running_profile still names the profile the new
\* worker was started for
C38_RestartLeavesOneWorker ==
    /\ ev.kind # "old_tick"
    /\ (ev.kind = "old_cleanup" /\ pc \in {"loop", "wait"})
           => running_profile = L.profile_name

----------------------------------------------------------------------------
(* Properties of the edge alert registry *)

EvaluateCall == ev.kind = "evaluate"

WasActive == ev.pre_al[ev.name].active

IsActive == alert_states[ev.name].active

\* C10: a call of _edge_alert turns active on exactly when it is made with
\* breach_now while inactive, turns it off exactly when it is made with
\* recovered_now and not breach_now while active, leaves every other alert
\* name alone, and returns true exactly when breach_now is true
C10_EdgeAlertTransitions ==
    EvaluateCall =>
        /\ (~WasActive /\ IsActive) <=> (ev.breach_now /\ ~WasActive)
        /\ (WasActive /\ ~IsActive)
              <=> (~ev.breach_now /\ ev.recovered_now /\ WasActive)
        /\ \A k \in AlertKinds \ {ev.name} : alert_states[k] = ev.pre_al[k]
        /\ ev.ret <=> ev.breach_now

\* a recovery call has just cleared an alert while the other name is active
C10_Witness ==
    /\ EvaluateCall /\ WasActive /\ ~IsActive
    /\ ev.recovered_now /\ ~ev.breach_now /\ ~ev.ret
    /\ \E k \in AlertKinds \ {ev.name} : alert_states[k].active

\* the step is a call of _edge_alert that takes the recovery edge
RecoveryStep ==
    /\ ev'.kind = "evaluate"
    /\ alert_states[ev'.name].active /\ ~alert_states'[ev'.name].active

Reminded == <<ev.name, "notify_reminder">> \in ev.events

\* C14: a reminder for an alert comes at least cooldown_s after the previous
\* reminder of the same breach, and a call during a continued breach writes
\* no audit record
C14_RemindersThrottled ==
    EvaluateCall =>
        /\ Reminded => /\ WasActive /\ ev.breach_now
                       /\ ev.gap = NoneT \/ ev.gap >= gs.hard_alert_cooldown_s
        /\ (WasActive /\ ev.breach_now) =>
               ev.events \subseteq {<<ev.name, "notify_reminder">>}

\* the second reminder of one breach, a full cool-down after the first
C14_Witness ==
    /\ EvaluateCall /\ Reminded /\ ev.gap # NoneT
    /\ ev.gap >= gs.hard_alert_cooldown_s

\* C35: a reminder for an alert comes at least cooldown_s after the
\* first-breach notification of the breach it belongs to
C35_NoReminderWithinCooldownOfBreach ==
    (EvaluateCall /\ Reminded) =>
        /\ ev.first_at[ev.name] # NoneT
        /\ Wall(now) - ev.first_at[ev.name] >= gs.hard_alert_cooldown_s

----------------------------------------------------------------------------
(* Properties of the pump window *)

\* C18: for window hours start and end in 0..23 and a time in hour h, the
\* allowed-check is true exactly when h lies in the half-open interval
\* [start, end) taken modulo 24; it is false for every h when start = end
C18_WindowIsHalfOpenModulo24 ==
    ev.kind = "window" =>
        (ev.ret <=> (HourOf(Wall(now)) - L.win_on + 24) % 24
                        < (L.win_off - L.win_on + 24) % 24)

\* the window [22, 6) allows a time in hour 23
C18_Witness ==
    /\ ev.kind = "window" /\ L.win_on = 22 /\ L.win_off = 6
    /\ HourOf(Wall(now)) = 23 /\ ev.ret

----------------------------------------------------------------------------
(* Properties of the alert registry inside the control loop *)

RecoverRecords(k) == {<<k, "log_recover">>, <<k, "notify_recover">>}

\* C11: in a loop iteration, an alert kind that was active before the
\* iteration and is inactive after it has gone through the recovery edge of
\* _edge_alert: the iteration wrote its audit recover record and sent its
\* recovery notification
C11_DeactivationOnlyByRecoveryEdge ==
    LoopTick =>
        \A k \in AlertKinds :
            (ev.pre_al[k].active /\ ~alert_states[k].active)
                => RecoverRecords(k) \subseteq ev.events

\* C12: at the end of a loop iteration that applied the hard stop, the
\* visible system error last_error is set
C12_HardStopShowsError == HardStopTick => sd.last_error # "None"

----------------------------------------------------------------------------
(* Properties of nutrient dosing *)

\* worker w has a nutrient pump energised
DoseEnergises(w) ==
    dose.W[w].pc \in {"sleep", "off"} /\ dose.pin[dose.W[w].letter]

\* C3: a dose that was in progress when an emergency stop returned never
\* has a nutrient pump energised afterwards
C3_StoppedDoseStaysOff == \A w \in dose.stopped : ~DoseEnergises(w)

InRunExact(w) == dose.W[w].pc \in {"enter", "on", "sleep", "off"}

\* C4: the two nutrient pumps are never energised together, a worker that
\* runs one pump finds the other one off, and at most one worker is inside
\* _run_exact
C4_NutrientPumpsNeverOverlap ==
    /\ ~(dose.pin.A /\ dose.pin.B)
    /\ \A w \in Workers :
          InRunExact(w) => /\ ~dose.pin[Other(dose.W[w].letter)]
                           /\ dose._DOSE_LOCK = w
    /\ Cardinality({w \in Workers : InRunExact(w)}) <= 1

\* one worker runs pump B after its pump A while another dose waits for
\* the lock
C4_Witness ==
    \E w \in Workers, v \in Workers :
        /\ v # w /\ dose.W[v].pc = "acquire"
        /\ dose.W[w].pc = "sleep" /\ dose.W[w].letter = "B"
        /\ dose.W[w].dur.A > 0 /\ dose.pin.B /\ ~dose.pin.A


\* the dosing fields of the runtime status record
DoseStatus(d) == <<d.nutrient_on, d.dosing_running, d.dosing_phase>>

\* worker w is in a cleanup (the finally of _run_exact, the return paths of
\* run_dose, the finally of _dose_worker) and the generation it captured is
\* no longer the current one
StaleCleanup(w) ==
    \/ /\ dose.W[w].pc \in {"off", "after", "end"}
       /\ dose.W[w].my_gen # dose.DOSE_GEN
    \/ /\ dose.W[w].pc = "finally"
       /\ dose.W[w]._gen # dose.dosing_gen

\* C15: a cleanup step of a dose whose captured generation differs from the
\* current one leaves nutrient_A_on, nutrient_B_on, dosing_running and
\* dosing_phase as they are
C15_StaleCleanupWritesNothing ==
    [][\A w \in Workers :
          (StaleCleanup(w) /\ dose'.W[w] # dose.W[w])
              => DoseStatus(dose') = DoseStatus(dose)]_vars

\* worker v belongs to a dose request accepted after the request of worker w
RequestedAfter(v, w) ==
    /\ dose.W[w]._gen > 0
    /\ dose.W[v]._gen > dose.W[w]._gen

\* worker w switches a nutrient pump on in this step
StartsPumpPhase(w) == dose.W[w].pc = "on" /\ dose'.W[w].pc = "sleep"

\* C39: a dose behind which a further dose request has been accepted
\* switches no nutrient pump on any more: no worker starts a pump phase
\* while a worker of a later request exists
C39_SupersededDoseStartsNoPhase ==
    [][\A w \in Workers :
          (\E v \in Workers : RequestedAfter(v, w)) => ~StartsPumpPhase(w)]_vars

\* worker w has executed `my_gen = current_gen()` of run_dose and is still
\* inside run_dose
Latched(w) ==
    dose.W[w].pc \in {"acquire", "check", "enter", "on", "sleep", "off", "after", "end"}

\* C16: the generation never decreases, a bump raises it by exactly one,
\* the doses in progress were handed distinct generations, and once an
\* emergency stop has returned the generation is greater than the one
\* captured by every dose that was in flight at the stop
C16_GenerationSupersedesInFlight ==
    [][/\ dose'.DOSE_GEN \in {dose.DOSE_GEN, dose.DOSE_GEN + 1}
       /\ \A w \in Workers, v \in Workers :
             (w # v /\ dose'.W[w].pc \notin {"idle", "done"}
                    /\ dose'.W[v].pc \notin {"idle", "done"})
                 => dose'.W[w]._gen # dose'.W[v]._gen
       /\ \A w \in dose'.stopped :
             Latched(w)' => dose'.W[w].my_gen < dose'.DOSE_GEN]_vars

AllWorkersTerminated == \A w \in Workers : dose.W[w].pc \in {"idle", "done"}

====
